---- MODULE Spec2Model ----
(***************************************************************************)
(* Execution Gate of the trading agent: TradingService (spot) and          *)
(* FuturesTradingService (derivatives) in front of the Binance clients.    *)
(*                                                                         *)
(* Money is counted in mills (1/1000 USDT), confidence in thousandths,     *)
(* percentages in whole percent; a quantity is the exact fraction          *)
(* [num, den].  One step of the model is one run-to-completion segment of  *)
(* the JavaScript code, from one await to the next.                        *)
(*                                                                         *)
(* Signal pipeline: analyzeSignals, the inference client (queryTapas,      *)
(* queryDistilBERT, queryFLANT5 / queryDeepSeek, queryBART) and the        *)
(* performance tracker's store.  Scores are counted in thousandths, the    *)
(* risk score in 1/10000, MACD and signal line in thousandths.             *)
(***************************************************************************)
EXTENDS Integers, Sequences, FiniteSets, TLC

VARIABLES
    tradingMode,      \* which service executes: "spot" or "futures"
    config,           \* TradingConfig held by the service
    initialized,      \* initialize() has returned true
    initialBalance,   \* service field, USDT
    dailyPnL,         \* service field, USDT
    exBalance,        \* exchange: USDT balance entry of the account
    exPositions,      \* exchange: raw positions of the futures account
    realizedPnL,      \* exchange: P&L realised by the account today, USDT
    active,           \* callers that issue executeTrade
    pc,               \* per caller: await the call is suspended at
    call,             \* per caller: arguments of the running executeTrade
    local,            \* per caller: locals of the running executeTrade
    risk,             \* per caller: the checkRiskParameters() promise
    result,           \* per caller: TradeExecutionResult returned
    log,              \* per caller: exchange requests issued by the call
    apiToken,         \* HF_API_TOKEN of the process: "" or "set"
    serverStore,      \* performance tracker: predictions, outcomes, metrics,
                      \* status
    clients,          \* requests that call analyzeSignals
    analysis,         \* per request: the running analyzeSignals call
    calc,             \* a function of the pipeline applied to an input; for
                      \* the tracker, the calls made and what they handed in
    manager           \* the TradingManager singleton, NULL while there is none

tradeVars == <<tradingMode, config, initialized, initialBalance, dailyPnL,
               exBalance, exPositions, realizedPnL,
               active, pc, call, local, risk, result, log>>

pipeVars == <<apiToken, serverStore, clients, analysis, calc>>

vars == <<tradeVars, pipeVars, manager>>

\* The services also keep currentDrawdown, which checkRiskParameters writes
\* and nothing reads; the model leaves it out.
svcVars == <<initialBalance, dailyPnL>>
exVars == <<exBalance, exPositions, realizedPnL>>

----------------------------------------------------------------------------
(* Input domains of the model *)

Callers == {"a", "b"}
Symbols == {"BTCUSDT", "XRPUSDT"}
Actions == {"BUY", "SELL", "HOLD"}
Confidences == {333, 1000}            \* thousandths
Times == {7, 8}                       \* values of Date.now()
Prices == {3}                         \* USDT, ticker price
\* How the exchange fills an accepted market order: the part of the quantity
\* executed (1 whole, 2 half) and the fill price above the ticker, USDT
Fills == {[part |-> 1, slippage |-> 0], [part |-> 2, slippage |-> 1]}
ExchangeErrors == {"Margin is insufficient.", "Unexpected error: fetch failed"}
\* The message of a failure that the client swallows
Swallowed == <<"Unexpected error: fetch failed">>

NULL == "null"
NoMessage == <<>>
ZeroQty == [num |-> 0, den |-> 1]

----------------------------------------------------------------------------
(* Arithmetic *)

Min(a, b) == IF a <= b THEN a ELSE b

\* Math.floor(x * 100) / 100 for x in mills
FloorCents(x) == (x \div 10) * 10

\* a / b as an exact fraction
Frac(a, b) == [num |-> a, den |-> b]

FracEq(p, q) == p.num * q.den = q.num * p.den

\* p * n for a fraction p whose product with n is whole
Scaled(p, n) == (p.num * n) \div p.den


----------------------------------------------------------------------------
(* Values exchanged with the Binance clients *)

NoOrder ==
    [id |-> <<>>, symbol |-> NULL, side |-> NULL, type |-> NULL,
     status |-> NULL, quantity |-> ZeroQty, executedQty |-> ZeroQty,
     executedPrice |-> 0, positionSide |-> NULL]

NoResult ==
    [success |-> FALSE, orderId |-> <<>>, errorMessage |-> NoMessage,
     order |-> NoOrder]

Failure(msg) == [NoResult EXCEPT !.errorMessage = msg]

NoPosition == [symbol |-> NULL, positionSide |-> NULL, quantity |-> 0]

\* The USDT entry of the account, or none
NoUSDT == [present |-> FALSE, total |-> 0, free |-> 0]
USDT(total, free) == [present |-> TRUE, total |-> total, free |-> free]

AccountStates ==
    {NoUSDT, USDT(100, 100), USDT(90, 60), USDT(20, 20), USDT(5, 0)}

\* Raw positions of /v2/account: positionAmt is signed, and a one-way account
\* reports every position with positionSide BOTH
RawPosition(symbol, side, amt) ==
    [symbol |-> symbol, positionSide |-> side, positionAmt |-> amt]

PositionLists ==
    { <<>>,
      <<RawPosition("XRPUSDT", "BOTH", 0), RawPosition("BTCUSDT", "BOTH", -2)>>,
      <<RawPosition("BTCUSDT", "BOTH", 3)>>,
      <<RawPosition("BTCUSDT", "SHORT", -2)>>,
      <<RawPosition("XRPUSDT", "LONG", 1), RawPosition("BTCUSDT", "LONG", 3)>> }

\* A request to the exchange, as the call's log keeps it
Request(api, site) ==
    [api |-> api, site |-> site, ok |-> "pending", msg |-> NoMessage,
     answer |-> 0, side |-> NULL, quantity |-> ZeroQty, reduceOnly |-> FALSE,
     positionSide |-> NULL, stopPrice |-> 0, price |-> 0, leverage |-> 0]

\* api.changeLeverage(symbol, leverage)
LeverageRequest(leverage) ==
    [Request("changeLeverage", "main") EXCEPT !.leverage = leverage]

OrderRequest(api, side, quantity, reduceOnly, positionSide, stopPrice, price) ==
    [Request(api, "main") EXCEPT !.side = side, !.quantity = quantity,
        !.reduceOnly = reduceOnly, !.positionSide = positionSide,
        !.stopPrice = stopPrice, !.price = price]

OrderApis == {"placeMarketOrder", "placeStopLossOrder", "placeTakeProfitOrder"}

----------------------------------------------------------------------------
(* Trading policy *)

RiskParameterSets ==
    { [maxPositionSize |-> 33, maxLeverage |-> 1, stopLossPercent |-> 2,
       takeProfitPercent |-> 4, maxDailyLoss |-> 50,
       maxDrawdownPercent |-> 10, maxOpenPositions |-> n] : n \in {0, 2} }

\* config.futuresSpecific, which the futures service reads; absent is
\* [present |-> FALSE]
NoFuturesSpecific ==
    [present |-> FALSE, hedgeMode |-> FALSE, marginType |-> NULL,
     defaultLeverage |-> 0]

FuturesSpecifics ==
    { NoFuturesSpecific,
      [present |-> TRUE, hedgeMode |-> FALSE, marginType |-> "ISOLATED",
       defaultLeverage |-> 3],
      [present |-> TRUE, hedgeMode |-> TRUE, marginType |-> NULL,
       defaultLeverage |-> 3] }

\* config.futuresConfig, the futures section TradingConfig declares and the
\* manager's default policy carries
FuturesConfigs ==
    { [hedgeMode |-> h, marginType |-> "ISOLATED", defaultLeverage |-> 3] :
        h \in BOOLEAN }

Configs(mode) ==
    { [enabled |-> e, testMode |-> t, tradingMode |-> mode,
       riskParameters |-> rp, allowedSymbols |-> {"BTCUSDT"},
       futuresConfig |-> fc, futuresSpecific |-> fs] :
        e \in BOOLEAN, t \in BOOLEAN,
        fc \in (IF mode = "futures" THEN FuturesConfigs
                ELSE {f \in FuturesConfigs : ~f.hedgeMode}),
        rp \in (IF mode = "futures" THEN RiskParameterSets
                ELSE {r \in RiskParameterSets : r.maxOpenPositions = 0}),
        fs \in (IF mode = "futures" THEN FuturesSpecifics
                ELSE {NoFuturesSpecific}) }


----------------------------------------------------------------------------
(* TradingService / FuturesTradingService: the pure parts *)

DisabledMessage == <<"Trading is disabled in configuration">>
HoldMessage == <<"Action is HOLD, no trade executed">>
SymbolMessage(symbol) ==
    <<"Symbol ", symbol, " is not in the allowed symbols list">>
RiskMessage == <<"Trade rejected due to risk parameters">>
BalanceMessage == <<"Insufficient USDT balance">>

\* Mutant: the allow-list is consulted ahead of the HOLD test
PreconditionError_SymbolFirst(cfg, symbol, action) ==
    IF ~cfg.enabled THEN DisabledMessage
    ELSE IF symbol \notin cfg.allowedSymbols THEN SymbolMessage(symbol)
    ELSE IF action = "HOLD" THEN HoldMessage
    ELSE NoMessage

\* The two guards ahead of the try block; NoMessage when both pass
PreconditionError(cfg, symbol, action) ==
    IF ~cfg.enabled \/ action = "HOLD"
    THEN IF ~cfg.enabled THEN DisabledMessage ELSE HoldMessage
    ELSE IF symbol \notin cfg.allowedSymbols
         THEN SymbolMessage(symbol)
         ELSE NoMessage

\* Mutant: the test-mode branch is missing
Branch_NoTestMode(cfg, symbol, action) ==
    IF PreconditionError(cfg, symbol, action) # NoMessage THEN "rejected"
    ELSE "live"

\* Where executeTrade goes after its guards: "rejected", "test" or "live"
Branch(cfg, symbol, action) ==
    IF PreconditionError(cfg, symbol, action) # NoMessage THEN "rejected"
    ELSE IF cfg.testMode THEN "test"
    ELSE "live"

\* The simulated order of test mode
TestOrder(symbol, action, now) ==
    [success |-> TRUE, orderId |-> <<"test_", now>>, errorMessage |-> NoMessage,
     order |-> [NoOrder EXCEPT !.id = <<"test_", now>>, !.symbol = symbol,
                    !.side = action, !.type = "MARKET", !.status = "FILLED"]]

\* `!this.checkRiskParameters()`: the operand is the promise the async method
\* returns, not the boolean it resolves to, and an object is never falsy
NotOfPromise(promise) == FALSE

DailyLossReached(pnl, cfg) == pnl < -cfg.riskParameters.maxDailyLoss

\* 1 - total / initial > maxDrawdownPercent / 100, for initial > 0
DrawdownReached(total, initial, cfg) ==
    (initial - total) * 100 > cfg.riskParameters.maxDrawdownPercent * initial

\* Mutant: Math.round in place of Math.floor
calculatePositionSize_Rounded(cfg, availableBalance, confidence) ==
    ((Min(cfg.riskParameters.maxPositionSize * confidence,
          availableBalance * 1000) + 5) \div 10) * 10

\* Spot sizing, in mills
calculatePositionSize(cfg, availableBalance, confidence) ==
    FloorCents(Min(cfg.riskParameters.maxPositionSize * confidence,
                   availableBalance * 1000))

\* `this.config.futuresSpecific?.defaultLeverage || 1`
Leverage(cfg) ==
    IF cfg.futuresSpecific.present /\ cfg.futuresSpecific.defaultLeverage # 0
    THEN cfg.futuresSpecific.defaultLeverage
    ELSE 1

\* Futures sizing, in mills
calculateFuturesPositionSize(cfg, availableBalance, confidence, leverage) ==
    FloorCents(Min(cfg.riskParameters.maxPositionSize * confidence * leverage,
                   availableBalance * 1000 * leverage))

HedgeMode(cfg) == cfg.futuresSpecific.present /\ cfg.futuresSpecific.hedgeMode

Abs(n) == IF n < 0 THEN -n ELSE n

\* BinanceFuturesApi.getPositions: open positions, sizes unsigned
getPositions(raw) ==
    LET open == SelectSeq(raw, LAMBDA p : p.positionAmt # 0)
    IN [i \in 1..Len(open) |->
           [symbol |-> open[i].symbol, positionSide |-> open[i].positionSide,
            quantity |-> Abs(open[i].positionAmt)]]

\* BinanceFuturesApi.getPositionInfo: the first position of the symbol
getPositionInfo(raw, symbol) ==
    LET ps == getPositions(raw)
        hits == {i \in 1..Len(ps) : ps[i].symbol = symbol}
    IN IF hits = {} THEN NoPosition
       ELSE ps[CHOOSE i \in hits : \A j \in hits : i <= j]

\* The side of a position that opposes the requested action
OpposingSide(action) == IF action = "BUY" THEN "SHORT" ELSE "LONG"

\* The test ahead of the closing order
ClosesFirst(cfg, action, existingPosition) ==
    /\ existingPosition # NoPosition
    /\ existingPosition.quantity > 0
    /\ existingPosition.positionSide = OpposingSide(action)
    /\ ~HedgeMode(cfg)

CloseOrder(action, existingPosition) ==
    OrderRequest("placeMarketOrder", action, Frac(existingPosition.quantity, 1),
                 TRUE, NULL, 0, 0)

EntryPositionSide(cfg, action) ==
    IF HedgeMode(cfg) THEN (IF action = "BUY" THEN "LONG" ELSE "SHORT")
    ELSE "BOTH"

EntryOrder(mode, cfg, action, quantity) ==
    OrderRequest("placeMarketOrder", action, quantity, FALSE,
                 IF mode = "futures" THEN EntryPositionSide(cfg, action) ELSE NULL,
                 0, 0)

\* Prices of the protective legs in 1/10000 USDT; entryPrice in USDT
StopLossPrice(cfg, side, entryPrice) ==
    IF side = "BUY"
    THEN entryPrice * (100 - cfg.riskParameters.stopLossPercent) * 100
    ELSE entryPrice * (100 + cfg.riskParameters.stopLossPercent) * 100

TakeProfitPrice(cfg, side, entryPrice) ==
    IF side = "BUY"
    THEN entryPrice * (100 + cfg.riskParameters.takeProfitPercent) * 100
    ELSE entryPrice * (100 - cfg.riskParameters.takeProfitPercent) * 100

\* stop * 0.99 for a long, stop * 1.01 for a short
LimitPrice(side, stop) ==
    IF side = "BUY" THEN (stop \div 100) * 99 ELSE (stop \div 100) * 101

ClosingSide(side) == IF side = "BUY" THEN "SELL" ELSE "BUY"

ProtectiveOrder(api, mode, cfg, side, quantity, stop) ==
    OrderRequest(api, ClosingSide(side), quantity, mode = "futures",
                 IF mode = "futures" THEN EntryPositionSide(cfg, side) ELSE NULL,
                 stop, LimitPrice(side, stop))


----------------------------------------------------------------------------
(* State of a call *)

NoCall == [symbol |-> NULL, action |-> NULL, confidence |-> 0]

NoLocal ==
    [positionSize |-> 0, currentPrice |-> 0, quantity |-> ZeroQty,
     existingPosition |-> NoPosition, entry |-> NoResult, pend |-> 0]

\* The promise of checkRiskParameters: not created, suspended at an await,
\* or resolved to value; calls are the exchange requests it has issued, the
\* last of them pending while it is suspended
NoRisk == [pc |-> "none", value |-> FALSE, calls |-> <<>>]
Resolved(value, calls) == [pc |-> "resolved", value |-> value, calls |-> calls]
Suspended(at, calls) == [pc |-> at, value |-> FALSE, calls |-> calls]

\* What the exchange client hands back: a value, or an error with a message
Ok == [ok |-> TRUE, msg |-> NoMessage, answer |-> 0]
OkWith(answer) == [ok |-> TRUE, msg |-> NoMessage, answer |-> answer]
Fail(msg) == [ok |-> FALSE, msg |-> msg, answer |-> 0]
OkOrNot(ok) == IF ok THEN Ok ELSE Fail(Swallowed)

Settle(entries, idx, reply) ==
    [entries EXCEPT ![idx].ok = IF reply.ok THEN "ok" ELSE "fail",
                    ![idx].msg = reply.msg, ![idx].answer = reply.answer]

\* The call returns res
Return(c, res) ==
    /\ pc' = [pc EXCEPT ![c] = "done"]
    /\ result' = [result EXCEPT ![c] = res]
    /\ local' = [local EXCEPT ![c] = NoLocal]

\* The call settles its pending request, issues req and suspends at `at`
Await(c, reply, req, at, loc) ==
    /\ pc' = [pc EXCEPT ![c] = at]
    /\ log' = [log EXCEPT
                 ![c] = Append(Settle(@, local[c].pend, reply), req)]
    /\ local' = [local EXCEPT ![c] = [loc EXCEPT !.pend = Len(log[c]) + 1]]
    /\ UNCHANGED result

\* The call settles its pending request and returns res
SettleAndReturn(c, reply, res) ==
    /\ log' = [log EXCEPT ![c] = Settle(@, local[c].pend, reply)]
    /\ Return(c, res)

----------------------------------------------------------------------------
(* initialize() of the active service *)

Initialize ==
    /\ ~initialized
    /\ \E reachable \in BOOLEAN :
          /\ initialized' = reachable
          /\ initialBalance' =
                IF reachable /\ exBalance.present THEN exBalance.total
                ELSE initialBalance
    /\ UNCHANGED <<tradingMode, config, dailyPnL, exVars,
                   active, pc, call, local, risk, result, log>>

----------------------------------------------------------------------------
(* executeTrade, up to its first await *)

\* The synchronous head of checkRiskParameters: the daily-loss test, then the
\* balance request
RiskHead(pnl, cfg) ==
    IF DailyLossReached(pnl, cfg) THEN Resolved(FALSE, <<>>)
    ELSE Suspended("getBalances", <<Request("getBalances", "risk")>>)

Start(c, symbol, action, confidence, now) ==
    /\ c \in active
    /\ initialized
    /\ pc[c] = "idle"
    /\ call' = [call EXCEPT ![c] =
                   [symbol |-> symbol, action |-> action,
                    confidence |-> confidence]]
    /\ LET err == PreconditionError(config, symbol, action)
           promise == RiskHead(dailyPnL, config)
           branch == Branch(config, symbol, action)
       IN IF branch = "rejected"
          THEN /\ Return(c, Failure(err))
               /\ log' = [log EXCEPT ![c] = <<>>]
               /\ risk' = [risk EXCEPT ![c] = NoRisk]
          ELSE IF branch = "test"
          THEN /\ Return(c, TestOrder(symbol, action, now))
               /\ log' = [log EXCEPT ![c] = <<>>]
               /\ risk' = [risk EXCEPT ![c] = NoRisk]
          ELSE IF NotOfPromise(promise)
          THEN /\ Return(c, Failure(RiskMessage))
               /\ log' = [log EXCEPT ![c] = <<>>]
               /\ risk' = [risk EXCEPT ![c] = promise]
          ELSE /\ pc' = [pc EXCEPT ![c] = "getBalances"]
               /\ log' = [log EXCEPT ![c] = <<Request("getBalances", "main")>>]
               /\ local' = [local EXCEPT ![c] = [NoLocal EXCEPT !.pend = 1]]
               /\ risk' = [risk EXCEPT ![c] = promise]
               /\ result' = [result EXCEPT ![c] = NoResult]
    /\ UNCHANGED <<tradingMode, config, initialized, svcVars, exVars, active>>

----------------------------------------------------------------------------
(* checkRiskParameters, running detached from the call that created it *)

SettleLast(calls, ok) == Settle(calls, Len(calls), OkOrNot(ok))

RiskGetBalancesReturns(c) ==
    /\ risk[c].pc = "getBalances"
    /\ \/ /\ risk' = [risk EXCEPT
                        ![c] = Resolved(FALSE, SettleLast(risk[c].calls, FALSE))]
       \/ LET measured == exBalance.present /\ initialBalance > 0
              reached == measured
                         /\ DrawdownReached(exBalance.total, initialBalance, config)
              counts == tradingMode = "futures"
                        /\ config.riskParameters.maxOpenPositions # 0
              settled == SettleLast(risk[c].calls, TRUE)
          IN  risk' = [risk EXCEPT ![c] =
                   IF reached THEN Resolved(FALSE, settled)
                   ELSE IF counts
                   THEN Suspended("getPositions",
                                  Append(settled, Request("getPositions", "risk")))
                   ELSE Resolved(TRUE, settled)]
    /\ UNCHANGED <<tradingMode, config, initialized, svcVars, exVars, active,
                   pc, call, local, result, log>>

RiskGetPositionsReturns(c) ==
    /\ risk[c].pc = "getPositions"
    /\ \/ risk' = [risk EXCEPT
                     ![c] = Resolved(FALSE, SettleLast(risk[c].calls, FALSE))]
       \/ risk' = [risk EXCEPT ![c] =
             Resolved(Len(getPositions(exPositions))
                          < config.riskParameters.maxOpenPositions,
                      SettleLast(risk[c].calls, TRUE))]
    /\ UNCHANGED <<tradingMode, config, initialized, svcVars, exVars, active,
                   pc, call, local, result, log>>

----------------------------------------------------------------------------
(* executeTrade, from await to await *)

frame == <<tradingMode, config, initialized, svcVars, exVars, active, call,
           risk>>

\* An order the exchange accepted, as mapOrderResponse returns it
Accepted(idx, symbol, req, executedQty, executedPrice) ==
    [success |-> TRUE, orderId |-> <<"", idx>>, errorMessage |-> NoMessage,
     order |-> [id |-> <<"", idx>>, symbol |-> symbol, side |-> req.side,
                type |-> "MARKET",
                status |-> IF executedQty = req.quantity THEN "FILLED"
                           ELSE "PARTIALLY_FILLED",
                quantity |-> req.quantity, executedQty |-> executedQty,
                executedPrice |-> executedPrice,
                positionSide |-> req.positionSide]]

Part(q, n) == IF n = 1 THEN q ELSE Frac(q.num, q.den * n)

GetBalancesReturns(c) ==
    /\ pc[c] = "getBalances"
    /\ \/ \E msg \in ExchangeErrors :
             SettleAndReturn(c, Fail(<<msg>>), Failure(<<msg>>))
       \/ IF ~exBalance.present \/ exBalance.free <= 0
          THEN SettleAndReturn(c, OkWith(exBalance.free), Failure(BalanceMessage))
          ELSE Await(c, OkWith(exBalance.free), Request("getCurrentPrice", "main"),
                     "getCurrentPrice",
                     [local[c] EXCEPT !.positionSize =
                        IF tradingMode = "futures"
                        THEN calculateFuturesPositionSize(config, exBalance.free,
                                 call[c].confidence, Leverage(config))
                        ELSE calculatePositionSize(config, exBalance.free,
                                 call[c].confidence)])
    /\ UNCHANGED frame

GetCurrentPriceReturns(c) ==
    /\ pc[c] = "getCurrentPrice"
    /\ \/ \E msg \in ExchangeErrors :
             SettleAndReturn(c, Fail(<<msg>>), Failure(<<msg>>))
       \/ \E price \in Prices :
             LET quantity == Frac(local[c].positionSize, price * 1000)
                 loc == [local[c] EXCEPT !.currentPrice = price,
                                         !.quantity = quantity]
             IN IF tradingMode = "futures"
                THEN Await(c, OkWith(price), Request("getPositionInfo", "main"),
                           "getPositionInfo", loc)
                ELSE Await(c, OkWith(price),
                           EntryOrder(tradingMode, config, call[c].action, quantity),
                           "entry", loc)
    /\ UNCHANGED frame

\* getPositionInfo answers null when the request fails
GetPositionInfoReturns(c) ==
    /\ pc[c] = "getPositionInfo"
    /\ \E ok \in BOOLEAN :
          LET loc == [local[c] EXCEPT !.existingPosition =
                        IF ok THEN getPositionInfo(exPositions, call[c].symbol)
                        ELSE NoPosition]
          IN IF config.futuresSpecific.present
                /\ config.futuresSpecific.marginType # NULL
             THEN Await(c, OkOrNot(ok), Request("changeMarginType", "main"),
                        "changeMarginType", loc)
             ELSE Await(c, OkOrNot(ok), LeverageRequest(Leverage(config)),
                        "changeLeverage", loc)
    /\ UNCHANGED frame

\* changeMarginType answers false when the request fails; the answer is unused
ChangeMarginTypeReturns(c) ==
    /\ pc[c] = "changeMarginType"
    /\ \E ok \in BOOLEAN :
          Await(c, OkOrNot(ok),
                LeverageRequest(Leverage(config)), "changeLeverage", local[c])
    /\ UNCHANGED frame

\* Mutant: a failed changeLeverage is swallowed like a failed changeMarginType
ChangeLeverageReturns_Swallowed(c) ==
    /\ pc[c] = "changeLeverage"
    /\ \E ok \in BOOLEAN :
          Await(c, OkOrNot(ok),
                EntryOrder(tradingMode, config, call[c].action, local[c].quantity),
                "entry", local[c])
    /\ UNCHANGED frame

ChangeLeverageReturns(c) ==
    /\ pc[c] = "changeLeverage"
    /\ \/ \E msg \in ExchangeErrors :
             SettleAndReturn(c, Fail(<<msg>>), Failure(<<msg>>))
       \/ IF ClosesFirst(config, call[c].action, local[c].existingPosition)
          THEN Await(c, Ok,
                     CloseOrder(call[c].action, local[c].existingPosition),
                     "close", local[c])
          ELSE Await(c, Ok,
                     EntryOrder(tradingMode, config, call[c].action,
                                local[c].quantity),
                     "entry", local[c])
    /\ UNCHANGED frame

\* The closing order's result is not looked at
CloseOrderReturns(c) ==
    /\ pc[c] = "close"
    /\ \E ok \in BOOLEAN :
          Await(c, OkOrNot(ok),
                EntryOrder(tradingMode, config, call[c].action, local[c].quantity),
                "entry", local[c])
    /\ UNCHANGED frame

\* Mutant: the protective legs are placed whatever the entry's result
AfterEntry_Unconditional(c, res) ==
    Await(c, IF res.success THEN Ok ELSE Fail(res.errorMessage),
          ProtectiveOrder("placeStopLossOrder", tradingMode, config,
              call[c].action, res.order.executedQty,
              StopLossPrice(config, call[c].action, local[c].currentPrice)),
          "stopLoss", [local[c] EXCEPT !.entry = res])

\* What executeTrade does with the entry order's result
AfterEntry(c, res) ==
    IF res.success
    THEN Await(c, Ok,
               ProtectiveOrder("placeStopLossOrder", tradingMode, config,
                   call[c].action, res.order.executedQty,
                   StopLossPrice(config, call[c].action, local[c].currentPrice)),
               "stopLoss", [local[c] EXCEPT !.entry = res])
    ELSE SettleAndReturn(c, Fail(res.errorMessage), res)

EntryOrderReturns(c) ==
    /\ pc[c] = "entry"
    /\ \/ \E msg \in ExchangeErrors : AfterEntry(c, Failure(<<msg>>))
       \/ \E fill \in Fills :
             AfterEntry(c, Accepted(local[c].pend, call[c].symbol,
                                    log[c][local[c].pend],
                                    Part(log[c][local[c].pend].quantity, fill.part),
                                    local[c].currentPrice + fill.slippage))
    /\ UNCHANGED frame

\* Mutant: a failed stop-loss ends the protective legs
StopLossReturns_StopsOnFailure(c) ==
    /\ pc[c] = "stopLoss"
    /\ \/ SettleAndReturn(c, Fail(Swallowed), local[c].entry)
       \/ Await(c, Ok,
                ProtectiveOrder("placeTakeProfitOrder", tradingMode, config,
                    call[c].action, local[c].entry.order.executedQty,
                    TakeProfitPrice(config, call[c].action, local[c].currentPrice)),
                "takeProfit", local[c])
    /\ UNCHANGED frame

\* placeStopLossOrder answers success or failure and never throws
StopLossReturns(c) ==
    /\ pc[c] = "stopLoss"
    /\ \E ok \in BOOLEAN :
          Await(c, OkOrNot(ok),
                ProtectiveOrder("placeTakeProfitOrder", tradingMode, config,
                    call[c].action, local[c].entry.order.executedQty,
                    TakeProfitPrice(config, call[c].action, local[c].currentPrice)),
                "takeProfit", local[c])
    /\ UNCHANGED frame

TakeProfitReturns(c) ==
    /\ pc[c] = "takeProfit"
    /\ \E ok \in BOOLEAN :
          SettleAndReturn(c, OkOrNot(ok), local[c].entry)
    /\ UNCHANGED frame

----------------------------------------------------------------------------
(* The exchange account moves: fills, fees, funding *)

\* The model moves the account between initialize(), which takes the
\* baseline, and the first executeTrade: a call sees one account state
AccountChanges(s) ==
    /\ initialized
    /\ \A c \in active : pc[c] = "idle"
    /\ s # exBalance
    /\ exBalance' = s
    /\ realizedPnL' = realizedPnL + (s.total - exBalance.total)
    /\ UNCHANGED <<tradingMode, config, initialized, svcVars, exPositions,
                   active, pc, call, local, risk, result, log>>

----------------------------------------------------------------------------
(* Signal pipeline: the state of the process before any analysis *)

Requests == {"r1", "r2"}
ModelTypes == {"tapas", "distilbert", "flant5", "bart"}

\* serverStore of model-tracking.ts.  Its arrays start empty and every
\* reader and writer calls initializeStore() first, which fills in one
\* metric and one status entry per model: the store is held as filled in.
\* Rates and averages are exact fractions, an accuracy that
\* was never computed is NULL, and issued counts the ids made so far: an id
\* is made of Date.now() and Math.random() and is held to be fresh.
EmptyStore ==
    [predictions |-> <<>>,
     outcomes |-> <<>>,
     metrics |->
        [m \in ModelTypes |->
            [totalPredictions |-> 0, successRate |-> ZeroQty,
             averageLatency |-> ZeroQty, errorRate |-> ZeroQty,
             accuracy |-> NULL]],
     connectionStatus |->
        [m \in ModelTypes |-> [status |-> "unknown", errorMessage |-> NoMessage]],
     issued |-> 0]

NoSnapshot == [rsi |-> 0, macd |-> 0, signal |-> 0, volume |-> 0]
NoNews == [positive |-> 0, negative |-> 0]

\* A text is a sequence of lines and a line is the set of the words in it
NoText == <<>>

\* A reasoning string: where it was composed, and whether the word "Fallback"
\* occurs in it
NoReasoning == [source |-> NULL, mentionsFallback |-> FALSE]
NoAttempt == [stage |-> NULL, endpoint |-> NULL, sent |-> FALSE, outcome |-> NULL]
NoResponse == [outcome |-> NULL, answer |-> NoText, score |-> 0]

\* ModelResults
NoModelResults ==
    [decision |-> NULL, riskScore |-> 0,
     tapasReasoning |-> NoReasoning, sentimentReasoning |-> NoReasoning,
     decisionReasoning |-> NoReasoning, summaryReasoning |-> NoReasoning,
     tapasUsingFallback |-> FALSE, sentimentUsingFallback |-> FALSE,
     decisionUsingFallback |-> FALSE, summaryUsingFallback |-> FALSE]

\* The locals of one analyzeSignals call.  attempts lists the calls of the
\* inference client the request has made, the last one possibly in flight;
\* last is the attempt that settled most recently, with the way it ended, and
\* response is what came back for it.
NoAnalysis ==
    [pc |-> "idle", marketData |-> NoSnapshot, newsData |-> NoNews,
     useFallback |-> FALSE, awaiting |-> "none", attempts |-> <<>>,
     last |-> NoAttempt, response |-> NoResponse,
     tapasResult |-> [answer |-> NoText, reasoning |-> NoReasoning],
     sentimentResult |-> [score |-> 0, reasoning |-> NoReasoning],
     flantResult |-> [decision |-> NULL, reasoning |-> NoReasoning],
     tapasUsingFallback |-> FALSE, sentimentUsingFallback |-> FALSE,
     decisionUsingFallback |-> FALSE,
     result |-> NoModelResults]

NoCalc == [fn |-> NULL, marketData |-> NoSnapshot, sentimentScore |-> 0,
           value |-> 0]

PipelineAtRest ==
    /\ apiToken = "set"
    /\ serverStore = EmptyStore
    /\ clients = {}
    /\ analysis = [r \in Requests |-> NoAnalysis]
    /\ calc = NoCalc

----------------------------------------------------------------------------
(* Specification: one caller and one executeTrade call *)

InitService ==
    /\ manager = NULL
    /\ tradingMode \in {"spot", "futures"}
    /\ config \in Configs(tradingMode)
    /\ initialized = FALSE
    /\ initialBalance = 0
    /\ dailyPnL = 0
    /\ exBalance = USDT(100, 100)
    /\ exPositions \in (IF tradingMode = "futures" THEN PositionLists ELSE {<<>>})
    /\ realizedPnL = 0
    /\ pc = [c \in Callers |-> "idle"]
    /\ call = [c \in Callers |-> NoCall]
    /\ local = [c \in Callers |-> NoLocal]
    /\ risk = [c \in Callers |-> NoRisk]
    /\ result = [c \in Callers |-> NoResult]
    /\ log = [c \in Callers |-> <<>>]

Init ==
    /\ InitService
    /\ active = {"a"}
    /\ PipelineAtRest

\* The gate does not touch the signal pipeline
Step(c) ==
    \/ \E symbol \in Symbols, action \in Actions, confidence \in Confidences,
          now \in Times :
          Start(c, symbol, action, confidence, now) /\ UNCHANGED <<pipeVars, manager>>
    \/ RiskGetBalancesReturns(c) /\ UNCHANGED <<pipeVars, manager>>
    \/ RiskGetPositionsReturns(c) /\ UNCHANGED <<pipeVars, manager>>
    \/ GetBalancesReturns(c) /\ UNCHANGED <<pipeVars, manager>>
    \/ GetCurrentPriceReturns(c) /\ UNCHANGED <<pipeVars, manager>>
    \/ GetPositionInfoReturns(c) /\ UNCHANGED <<pipeVars, manager>>
    \/ ChangeMarginTypeReturns(c) /\ UNCHANGED <<pipeVars, manager>>
    \/ ChangeLeverageReturns(c) /\ UNCHANGED <<pipeVars, manager>>
    \/ CloseOrderReturns(c) /\ UNCHANGED <<pipeVars, manager>>
    \/ EntryOrderReturns(c) /\ UNCHANGED <<pipeVars, manager>>
    \/ StopLossReturns(c) /\ UNCHANGED <<pipeVars, manager>>
    \/ TakeProfitReturns(c) /\ UNCHANGED <<pipeVars, manager>>

Next ==
    \/ Initialize /\ UNCHANGED <<pipeVars, manager>>
    \/ \E s \in AccountStates : AccountChanges(s) /\ UNCHANGED <<pipeVars, manager>>
    \/ \E c \in Callers : Step(c)

Spec == Init /\ [][Next]_vars


----------------------------------------------------------------------------
(* Vocabulary of the properties *)

\* The call of caller c is a live one
Live(c) ==
    /\ config.enabled
    /\ ~config.testMode
    /\ call[c].symbol \in config.allowedSymbols
    /\ call[c].action \in {"BUY", "SELL"}

Returned(c) == pc[c] = "done"
Rejected(c) == ~result[c].success

Indexes(c) == DOMAIN log[c]
IsOrder(r) == r.api \in OrderApis
IsEntry(r) == r.api = "placeMarketOrder" /\ ~r.reduceOnly
IsClose(r) == r.api = "placeMarketOrder" /\ r.reduceOnly

\* Orders of the call that the exchange took
Placed(c) == {i \in Indexes(c) : IsOrder(log[c][i]) /\ log[c][i].ok = "ok"}

\* The call made no request to the exchange at all
NoExchangeCall(c) == log[c] = <<>> /\ risk[c].calls = <<>>

DrawdownNow ==
    /\ exBalance.present
    /\ initialBalance > 0
    /\ (initialBalance - exBalance.total) * 100
          > config.riskParameters.maxDrawdownPercent * initialBalance

OpenPositions == {i \in DOMAIN exPositions : exPositions[i].positionAmt # 0}

\* A position of the symbol that the action would reverse: a short ahead of a
\* BUY, a long ahead of a SELL
Opposing(symbol, action) ==
    {i \in DOMAIN exPositions :
        /\ exPositions[i].symbol = symbol
        /\ IF action = "BUY" THEN exPositions[i].positionAmt < 0
           ELSE exPositions[i].positionAmt > 0}

----------------------------------------------------------------------------
(* Properties of the Execution Gate *)

\* C1 (as claimed): a live call made while the drawdown exceeds
\* maxDrawdownPercent returns success = false and places no order.
C1_DrawdownRejects ==
    \A c \in Callers :
        (Returned(c) /\ Live(c) /\ DrawdownNow)
            => (Rejected(c) /\ Placed(c) = {})

\* C2 (as claimed): once the P&L realised today is below -maxDailyLoss, a live
\* call returns success = false and places no order.
C2_DailyLossRejects ==
    \A c \in Callers :
        (Returned(c) /\ Live(c)
         /\ realizedPnL < -config.riskParameters.maxDailyLoss)
            => (Rejected(c) /\ Placed(c) = {})

\* C3: the guards are tried in the order disabled, HOLD, symbol; the first that
\* fails ends the call with its own message and without any exchange request.
C3_PreconditionOrder ==
    \A c \in Callers :
        pc[c] # "idle" =>
            /\ ~config.enabled =>
                  /\ Returned(c) /\ NoExchangeCall(c)
                  /\ result[c] = Failure(DisabledMessage)
            /\ (config.enabled /\ call[c].action = "HOLD") =>
                  /\ Returned(c) /\ NoExchangeCall(c)
                  /\ result[c] = Failure(HoldMessage)
            /\ (config.enabled /\ call[c].action # "HOLD"
                /\ call[c].symbol \notin config.allowedSymbols) =>
                  /\ Returned(c) /\ NoExchangeCall(c)
                  /\ result[c] = Failure(SymbolMessage(call[c].symbol))

\* C3 witness: a HOLD for a symbol outside the allow-list was turned down
C3_Witness ==
    \E c \in Callers :
        /\ Returned(c) /\ config.enabled
        /\ call[c].action = "HOLD"
        /\ call[c].symbol \notin config.allowedSymbols
        /\ result[c].errorMessage = HoldMessage

\* C4: in test mode an enabled BUY or SELL of an allowed symbol returns
\* success with an id starting "test_" and a fully filled simulated order, and
\* makes no exchange request.
C4_TestMode ==
    \A c \in Callers :
        (pc[c] # "idle" /\ config.enabled /\ config.testMode
         /\ call[c].action \in {"BUY", "SELL"}
         /\ call[c].symbol \in config.allowedSymbols) =>
            /\ Returned(c)
            /\ result[c].success
            /\ Len(result[c].orderId) > 0 /\ Head(result[c].orderId) = "test_"
            /\ result[c].order.id = result[c].orderId
            /\ result[c].order.symbol = call[c].symbol
            /\ result[c].order.side = call[c].action
            /\ result[c].order.type = "MARKET"
            /\ result[c].order.status = "FILLED"
            /\ FracEq(result[c].order.executedQty, result[c].order.quantity)
            /\ NoExchangeCall(c)

\* C4 witness: a test-mode SELL has returned
C4_Witness ==
    \E c \in Callers :
        /\ Returned(c) /\ config.enabled /\ config.testMode
        /\ call[c].action = "SELL"
        /\ call[c].symbol \in config.allowedSymbols
        /\ result[c].success

\* C5 (as claimed): a live futures call made with maxOpenPositions or more
\* positions open returns success = false and places no order.
C5_MaxOpenPositionsRejects ==
    \A c \in Callers :
        (Returned(c) /\ Live(c) /\ tradingMode = "futures"
         /\ config.riskParameters.maxOpenPositions # 0
         /\ Cardinality(OpenPositions) >= config.riskParameters.maxOpenPositions)
            => (Rejected(c) /\ Placed(c) = {})


\* Requests whose failure the exchange client lets through as an exception
Throwing == {"getBalances", "getCurrentPrice", "changeLeverage"}

\* Requests of the call ahead of its entry order
Preparing ==
    Throwing \cup {"getPositionInfo", "changeMarginType"}

Failed(c, i) == log[c][i].ok = "fail"

EntryAfter(c, i) == \E j \in Indexes(c) : j > i /\ IsEntry(log[c][j])

\* C6 (as claimed): when a request ahead of the entry order fails, the call
\* returns success = false with a message and issues no entry order after
\* it; when the entry order fails, the call returns the exchange's message.
C6_EveryFailureSurfaces ==
    \A c \in Callers :
        Returned(c) =>
            \A i \in Indexes(c) :
                /\ (Failed(c, i) /\ log[c][i].api \in Preparing) =>
                      /\ Rejected(c)
                      /\ result[c].errorMessage # NoMessage
                      /\ ~EntryAfter(c, i)
                /\ (Failed(c, i) /\ IsEntry(log[c][i])) =>
                      result[c] = Failure(log[c][i].msg)

\* C6 (amended): the call always ends in a structured result; a failed balance,
\* price or leverage request ends it with success = false and that error's
\* message, with no request after it; a failed entry order ends it with
\* the exchange's message.
C6_ThrownFailuresSurface ==
    \A c \in Callers :
        /\ Returned(c) => (result[c].success \/ result[c].errorMessage # NoMessage)
        /\ \A i \in Indexes(c) :
              (Failed(c, i) /\ (log[c][i].api \in Throwing \/ IsEntry(log[c][i]))) =>
                  /\ Returned(c)
                  /\ result[c] = Failure(log[c][i].msg)
                  /\ log[c][i].msg # NoMessage
                  /\ i = Len(log[c])

\* C6 witness: a futures call has returned after changeLeverage failed
C6_Witness ==
    \E c \in Callers :
        /\ Returned(c)
        /\ \E i \in Indexes(c) :
              Failed(c, i) /\ log[c][i].api = "changeLeverage"

\* C7: a stop-loss is issued only after the entry order succeeded, a
\* take-profit only after the stop-loss was answered; a failed entry is followed
\* by neither.
C7_ProtectiveAfterEntry ==
    \A c \in Callers :
        \A i \in Indexes(c) :
            /\ log[c][i].api = "placeStopLossOrder" =>
                  \E j \in 1..(i - 1) : IsEntry(log[c][j]) /\ log[c][j].ok = "ok"
            /\ log[c][i].api = "placeTakeProfitOrder" =>
                  \E j \in 1..(i - 1) :
                      /\ log[c][j].api = "placeStopLossOrder"
                      /\ log[c][j].ok # "pending"
            /\ (IsEntry(log[c][i]) /\ Failed(c, i)) =>
                  \A j \in Indexes(c) :
                      log[c][j].api \notin {"placeStopLossOrder", "placeTakeProfitOrder"}

\* C7 witness: entry, stop-loss and take-profit were all taken by the exchange
C7_Witness ==
    \E c \in Callers :
        /\ Returned(c)
        /\ \E i, j, k \in Placed(c) :
              /\ i < j /\ j < k
              /\ IsEntry(log[c][i])
              /\ log[c][j].api = "placeStopLossOrder"
              /\ log[c][k].api = "placeTakeProfitOrder"

Legs == {"placeStopLossOrder", "placeTakeProfitOrder"}

\* C8: once the entry order succeeded the call returns the entry's result,
\* whatever the legs answer; both legs are attempted, and nothing but the two
\* legs is sent after the entry (no cancel, no reversing order).
C8_EntryResultStands ==
    \A c \in Callers :
        \A i \in Indexes(c) :
            (Returned(c) /\ IsEntry(log[c][i]) /\ log[c][i].ok = "ok") =>
                /\ result[c].success
                /\ result[c].orderId = <<"", i>>
                /\ result[c].order.id = <<"", i>>
                /\ result[c].order.side = call[c].action
                /\ result[c].order.quantity = log[c][i].quantity
                /\ \E j \in Indexes(c) :
                      j > i /\ log[c][j].api = "placeStopLossOrder"
                /\ \E j \in Indexes(c) :
                      j > i /\ log[c][j].api = "placeTakeProfitOrder"
                /\ \A j \in Indexes(c) : j > i => log[c][j].api \in Legs

\* C8 witness: the entry succeeded and both legs failed
C8_Witness ==
    \E c \in Callers :
        /\ Returned(c) /\ result[c].success
        /\ \E i \in Placed(c) : IsEntry(log[c][i])
        /\ \E j, k \in Indexes(c) :
              /\ log[c][j].api = "placeStopLossOrder" /\ Failed(c, j)
              /\ log[c][k].api = "placeTakeProfitOrder" /\ Failed(c, k)

\* The notional as the specification gives it, in mills, from the balance and
\* the confidence
Notional(mode, cfg, availableBalance, confidence) ==
    LET target == cfg.riskParameters.maxPositionSize * confidence
        raw == IF mode = "futures"
               THEN Min(target * Leverage(cfg),
                        availableBalance * 1000 * Leverage(cfg))
               ELSE Min(target, availableBalance * 1000)
    IN raw - (raw % 10)

\* C9: the entry order's quantity times the price is the notional
\* min(maxPositionSize * confidence [* leverage], balance [* leverage])
\* rounded down to cents.
C9_Sizing ==
    \A c \in Callers :
        \A i \in Indexes(c) :
            IsEntry(log[c][i]) =>
                /\ log[c][1].api = "getBalances" /\ log[c][1].ok = "ok"
                /\ log[c][2].api = "getCurrentPrice" /\ log[c][2].ok = "ok"
                /\ log[c][i].quantity.den # 0
                /\ log[c][i].quantity.num * log[c][2].answer * 1000
                      = Notional(tradingMode, config, log[c][1].answer,
                                 call[c].confidence) * log[c][i].quantity.den

\* C9 witness: a leveraged futures entry whose notional was rounded down
C9_Witness ==
    \E c \in Callers :
        /\ tradingMode = "futures" /\ Leverage(config) > 1
        /\ \E i \in Indexes(c) : IsEntry(log[c][i])
        /\ (config.riskParameters.maxPositionSize * call[c].confidence
              * Leverage(config)) % 10 # 0
        /\ config.riskParameters.maxPositionSize * call[c].confidence
              < exBalance.free * 1000

\* C10 (as claimed): with hedge mode off a reduce-only market order for the
\* whole opposing position precedes the entry order; with hedge mode on no
\* closing order is sent.
C10_ClosesOpposingFirst ==
    \A c \in Callers :
        \A i \in Indexes(c) :
            (Returned(c) /\ tradingMode = "futures" /\ IsEntry(log[c][i])) =>
                /\ (/\ ~HedgeMode(config)
                    /\ Opposing(call[c].symbol, call[c].action) # {}
                    /\ \E j \in Indexes(c) :
                          log[c][j].api = "getPositionInfo" /\ log[c][j].ok = "ok")
                   => \E j \in 1..(i - 1) :
                         /\ IsClose(log[c][j])
                         /\ log[c][j].side = call[c].action
                         /\ \E k \in Opposing(call[c].symbol, call[c].action) :
                               FracEq(log[c][j].quantity,
                                      Frac(Abs(exPositions[k].positionAmt), 1))
                /\ HedgeMode(config) =>
                      \A j \in Indexes(c) : ~IsClose(log[c][j])

\* Orders that open or protect the position of the call
IsLeg(r) == r.api \in Legs

\* C11 (as claimed): in futures mode every entry order and protective leg
\* carries positionSide LONG (BUY) or SHORT (SELL) when the policy's
\* futuresConfig has hedge mode on, and BOTH when it has hedge mode off.
C11_PositionSideFollowsPolicy ==
    \A c \in Callers :
        \A i \in Indexes(c) :
            (tradingMode = "futures" /\ (IsEntry(log[c][i]) \/ IsLeg(log[c][i]))) =>
                log[c][i].positionSide =
                    IF config.futuresConfig.hedgeMode
                    THEN (IF call[c].action = "BUY" THEN "LONG" ELSE "SHORT")
                    ELSE "BOTH"

----------------------------------------------------------------------------
(* Specification: two callers of one live service, the exchange answering
   every request *)

InitRace ==
    /\ InitService
    /\ active = Callers
    /\ config.enabled /\ ~config.testMode
    /\ ~config.futuresConfig.hedgeMode
    /\ tradingMode = "futures" =>
          /\ config.riskParameters.maxOpenPositions = 2
          /\ config.futuresSpecific.present /\ ~config.futuresSpecific.hedgeMode
          /\ exPositions = <<RawPosition("BTCUSDT", "SHORT", -2)>>
    /\ PipelineAtRest

\* No request of any call has been refused
Healthy ==
    \A c \in Callers :
        /\ \A i \in DOMAIN log[c] : log[c][i].ok # "fail"
        /\ \A i \in DOMAIN risk[c].calls : risk[c].calls[i].ok # "fail"

\* Mutant: a call takes its steps only while no other call is in flight
HealthyStep_Serialized(c) ==
    /\ \A d \in Callers \ {c} : pc[d] \in {"idle", "done"}
    /\ \/ \E symbol \in Symbols, action \in Actions,
             confidence \in Confidences, now \in Times :
             Start(c, symbol, action, confidence, now)
       \/ RiskGetBalancesReturns(c) \/ RiskGetPositionsReturns(c)
       \/ GetBalancesReturns(c) \/ GetCurrentPriceReturns(c)
       \/ GetPositionInfoReturns(c) \/ ChangeMarginTypeReturns(c)
       \/ ChangeLeverageReturns(c) \/ CloseOrderReturns(c)
       \/ EntryOrderReturns(c) \/ StopLossReturns(c) \/ TakeProfitReturns(c)
    /\ Healthy'
    /\ UNCHANGED <<pipeVars, manager>>

\* One step of caller c: nothing in it looks at the other caller
HealthyStep(c) ==
    \/ \E symbol \in Symbols, action \in Actions, confidence \in Confidences,
          now \in Times :
          Start(c, symbol, action, confidence, now) /\ Healthy'
             /\ UNCHANGED <<pipeVars, manager>>
    \/ RiskGetBalancesReturns(c) /\ Healthy' /\ UNCHANGED <<pipeVars, manager>>
    \/ RiskGetPositionsReturns(c) /\ Healthy' /\ UNCHANGED <<pipeVars, manager>>
    \/ GetBalancesReturns(c) /\ Healthy' /\ UNCHANGED <<pipeVars, manager>>
    \/ GetCurrentPriceReturns(c) /\ Healthy' /\ UNCHANGED <<pipeVars, manager>>
    \/ GetPositionInfoReturns(c) /\ Healthy' /\ UNCHANGED <<pipeVars, manager>>
    \/ ChangeMarginTypeReturns(c) /\ Healthy' /\ UNCHANGED <<pipeVars, manager>>
    \/ ChangeLeverageReturns(c) /\ Healthy' /\ UNCHANGED <<pipeVars, manager>>
    \/ CloseOrderReturns(c) /\ Healthy' /\ UNCHANGED <<pipeVars, manager>>
    \/ EntryOrderReturns(c) /\ Healthy' /\ UNCHANGED <<pipeVars, manager>>
    \/ StopLossReturns(c) /\ Healthy' /\ UNCHANGED <<pipeVars, manager>>
    \/ TakeProfitReturns(c) /\ Healthy' /\ UNCHANGED <<pipeVars, manager>>

NextRace ==
    \/ Initialize /\ UNCHANGED <<pipeVars, manager>>
    \/ \E s \in AccountStates : AccountChanges(s) /\ UNCHANGED <<pipeVars, manager>>
    \/ \E c \in Callers : HealthyStep(c)

SpecRace == InitRace /\ [][NextRace]_vars

\* The request a call is suspended on
Pending(c) == log[c][local[c].pend]

InFlight(c) == pc[c] \notin {"idle", "done"}

\* The balance the sizing uses, as the exchange holds it
AvailableNow == exBalance.free

\* C12: the gate takes no lock. A call that has not started can start, and
\* a call in flight can take its next step, whatever the other call is doing;
\* and the balance a call has read is the account's balance, whatever the
\* other call has read or placed.
C12_CallsDoNotExcludeEachOther ==
    \A c \in Callers :
        /\ (initialized /\ pc[c] = "idle") => ENABLED HealthyStep(c)
        /\ InFlight(c) => ENABLED HealthyStep(c)
        /\ (Len(log[c]) >= 1 /\ log[c][1].ok = "ok") =>
              log[c][1].answer = AvailableNow

\* C12 witness: both calls for the same symbol have had their risk check
\* resolve to true, have read the same balance, and have their entry orders
\* at the exchange, neither answered yet
C12_Witness ==
    /\ call["a"].symbol = call["b"].symbol
    /\ \A c \in Callers :
          /\ pc[c] = "entry"
          /\ IsEntry(Pending(c)) /\ Pending(c).ok = "pending"
          /\ risk[c].pc = "resolved" /\ risk[c].value
          /\ log[c][1].api = "getBalances" /\ log[c][1].ok = "ok"
    /\ log["a"][1].answer = log["b"][1].answer

----------------------------------------------------------------------------
(* Signal pipeline: the risk scorer *)

\* The gate as constructed and never called
TradingAtRest ==
    /\ InitService
    /\ tradingMode = "spot"
    /\ ~config.enabled /\ config.testMode
    /\ active = {}

Clamp(lo, hi, x) == IF x < lo THEN lo ELSE IF x > hi THEN hi ELSE x

\* Mutant: the score is returned without Math.max / Math.min
calculateRiskScore_Unclamped(marketData, sentimentScore) ==
    5000
    + (IF marketData.rsi > 70 THEN 1000
       ELSE IF marketData.rsi < 30 THEN -1000 ELSE 0)
    + (IF marketData.macd > marketData.signal THEN -500 ELSE 500)
    + (IF marketData.volume > 1000000 THEN 500 ELSE 0)
    + (sentimentScore - 500) * 2

\* Mutant: MACD equal to the signal line counts as above it
calculateRiskScore_TieIsAbove(marketData, sentimentScore) ==
    Clamp(0, 10000,
        5000
        + (IF marketData.rsi > 70 THEN 1000
           ELSE IF marketData.rsi < 30 THEN -1000 ELSE 0)
        + (IF marketData.macd >= marketData.signal THEN -500 ELSE 500)
        + (IF marketData.volume > 1000000 THEN 500 ELSE 0)
        + (sentimentScore - 500) * 2)

\* calculateRiskScore, in 1/10000; sentimentScore in thousandths
calculateRiskScore(marketData, sentimentScore) ==
    LET afterRsi == IF marketData.rsi > 70 THEN 5000 + 1000
                    ELSE IF marketData.rsi < 30 THEN 5000 - 1000
                    ELSE 5000
        afterMacd == IF marketData.macd > marketData.signal
                     THEN afterRsi - 500 ELSE afterRsi + 500
        afterVolume == IF marketData.volume > 1000000
                       THEN afterMacd + 500 ELSE afterMacd
        afterSentiment == afterVolume + (sentimentScore - 500) * 2
    IN Clamp(0, 10000, afterSentiment)

\* Snapshots and scores the scorer is applied to; a score is any number
\* the caller passes, inside [0, 1] or not
ScoredSnapshots ==
    [rsi : {29, 30, 31, 70, 71, 75}, macd : {-100, 50, 100},
     signal : {50, 100}, volume : {1000000, 1000001, 2000000}]

ScoredSentiments == {-30000, -3000, 0, 250, 500, 1000, 6000, 30000}

InitCalc ==
    /\ TradingAtRest
    /\ apiToken = "set"
    /\ serverStore = EmptyStore
    /\ clients = {}
    /\ analysis = [r \in Requests |-> NoAnalysis]
    /\ calc \in [fn : {"pending"}, marketData : ScoredSnapshots,
                 sentimentScore : ScoredSentiments, value : {0}]

Calculate ==
    /\ calc.fn = "pending"
    /\ calc' = [calc EXCEPT
                  !.fn = "calculateRiskScore",
                  !.value = calculateRiskScore(calc.marketData,
                                               calc.sentimentScore)]
    /\ UNCHANGED <<manager, tradeVars, apiToken, serverStore, clients, analysis>>

NextCalc == Calculate

SpecCalc == InitCalc /\ [][NextCalc]_vars

Scored == calc.fn = "calculateRiskScore"

\* C15: for every snapshot and every sentiment score the risk score lies in
\* [0, 1].
C15_RiskScoreInUnitInterval ==
    Scored => (calc.value >= 0 /\ calc.value <= 10000)

\* C15 witness: a sentiment score outside [0, 1] has been scored and the
\* clamp brought the result back to a bound
C15_Witness ==
    /\ Scored
    /\ calc.value \in {0, 10000}
    /\ calc.sentimentScore \notin 0..1000

\* The score as the specification writes it, in 1/10000
SpecifiedRisk(md, sentiment) ==
    LET sum == 5000
               + (IF md.rsi > 70 THEN 1000 ELSE 0)
               - (IF md.rsi < 30 THEN 1000 ELSE 0)
               + (IF md.macd > md.signal THEN -500 ELSE 500)
               + (IF md.volume > 1000000 THEN 500 ELSE 0)
               + (sentiment - 500) * 2
    IN IF sum < 0 THEN 0 ELSE IF sum > 10000 THEN 10000 ELSE sum

\* C16: the risk score is the specified sum clamped to [0, 1]; for rsi 75,
\* macd 0.1, signal 0.05, volume 2,000,000 and sentiment 0.5 it is 0.6.
C16_RiskScoreFormula ==
    Scored =>
        /\ calc.value = SpecifiedRisk(calc.marketData, calc.sentimentScore)
        /\ (/\ calc.marketData = [rsi |-> 75, macd |-> 100, signal |-> 50,
                                  volume |-> 2000000]
            /\ calc.sentimentScore = 500) => calc.value = 6000

\* C16 witness: the specification's example has been scored as 0.6
C16_Witness ==
    /\ Scored
    /\ calc.marketData = [rsi |-> 75, macd |-> 100, signal |-> 50,
                          volume |-> 2000000]
    /\ calc.sentimentScore = 500
    /\ calc.value = 6000

----------------------------------------------------------------------------
(* Signal pipeline: the tracker *)

MaxPredictions == 1000

\* updateConnectionStatus: the entry of the model is replaced as a whole, so
\* an error message of an earlier attempt does not survive a later update
updateConnectionStatus(store, modelType, status, errorMessage) ==
    [store EXCEPT !.connectionStatus[modelType] =
        [status |-> status, errorMessage |-> errorMessage]]

MaxOutcomes == 1000

\* Array.prototype.slice(-n) of a sequence
LastOf(seq, n) ==
    IF Len(seq) > n THEN SubSeq(seq, Len(seq) - n + 1, Len(seq)) ELSE seq

\* What the clients hand to recordPrediction in the pipeline specifications,
\* whose clock stands still: every latency is 0
Measured(modelType, success) ==
    [modelType |-> modelType, latency |-> 0, success |-> success]

\* recordPrediction with the log never cut
recordPrediction_Unbounded(store, prediction) ==
    LET metric == store.metrics[prediction.modelType]
        id == store.issued + 1
        totalPredictions == metric.totalPredictions + 1
        successCount == Scaled(metric.successRate, metric.totalPredictions)
                            + (IF prediction.success THEN 1 ELSE 0)
        totalLatency == Scaled(metric.averageLatency, metric.totalPredictions)
                            + prediction.latency
    IN  [store EXCEPT
            !.predictions = Append(store.predictions,
                                   [id |-> id,
                                    modelType |-> prediction.modelType,
                                    latency |-> prediction.latency,
                                    success |-> prediction.success]),
            !.metrics[prediction.modelType] =
                [metric EXCEPT
                    !.totalPredictions = totalPredictions,
                    !.successRate = Frac(successCount, totalPredictions),
                    !.averageLatency = Frac(totalLatency, totalPredictions),
                    !.errorRate = Frac(totalPredictions - successCount,
                                        totalPredictions)],
            !.issued = id]

\* recordPrediction with the metrics of every model touched
recordPrediction_AllModels(store, prediction) ==
    LET one == recordPrediction_Unbounded(store, prediction)
    IN  [one EXCEPT
            !.predictions = LastOf(one.predictions, MaxPredictions),
            !.metrics = [m \in ModelTypes |->
                            one.metrics[prediction.modelType]]]

\* recordPrediction: the prediction gets its id and is pushed, the metrics
\* of its model are recomputed from the stored rate and average, and the
\* log is cut to its last MaxPredictions entries.  Of a prediction the
\* model, the latency and the success bit are kept.
recordPrediction(store, prediction) ==
    LET metric == store.metrics[prediction.modelType]
        id == store.issued + 1
        pushed == Append(store.predictions,
                         [id |-> id,
                          modelType |-> prediction.modelType,
                          latency |-> prediction.latency,
                          success |-> prediction.success])
        totalPredictions == metric.totalPredictions + 1
        successCount == Scaled(metric.successRate, metric.totalPredictions)
                            + (IF prediction.success THEN 1 ELSE 0)
        totalLatency == Scaled(metric.averageLatency, metric.totalPredictions)
                            + prediction.latency
    IN  [store EXCEPT
            !.predictions = LastOf(pushed, MaxPredictions),
            !.metrics[prediction.modelType] =
                [metric EXCEPT
                    !.totalPredictions = totalPredictions,
                    !.successRate = Frac(successCount, totalPredictions),
                    !.averageLatency = Frac(totalLatency, totalPredictions),
                    !.errorRate = Frac(totalPredictions - successCount,
                                        totalPredictions)],
            !.issued = id]

\* recordOutcome: the outcome is pushed; if its prediction is still in the
\* log, the accuracy of the model of that prediction is recomputed over the
\* outcomes whose prediction is in the log under that model; the log is cut
\* to its last MaxOutcomes entries
recordOutcome(store, outcome) ==
    LET pushed == Append(store.outcomes, outcome)
        found == {i \in DOMAIN store.predictions :
                    store.predictions[i].id = outcome.predictionId}
        prediction ==
            store.predictions[CHOOSE i \in found : \A j \in found : i <= j]
        idsOfModel ==
            {store.predictions[i].id :
                i \in {j \in DOMAIN store.predictions :
                          store.predictions[j].modelType = prediction.modelType}}
        ofModel(o) == o.predictionId \in idsOfModel
        outcomes == SelectSeq(pushed, ofModel)
        correctOutcomes == Len(SelectSeq(outcomes, LAMBDA o : o.correct))
    IN  [store EXCEPT
            !.outcomes = LastOf(pushed, MaxOutcomes),
            !.metrics =
                IF found = {} THEN @
                ELSE [@ EXCEPT ![prediction.modelType].accuracy =
                        IF Len(outcomes) > 0
                        THEN Frac(correctOutcomes, Len(outcomes))
                        ELSE NULL]]

\* clearAllData: both logs are emptied and the metrics and the statuses are
\* made anew
clearAllData(store) == [EmptyStore EXCEPT !.issued = store.issued]

----------------------------------------------------------------------------
(* Signal pipeline: texts, the local heuristics and the reply parser *)

Words == {"BUY", "buy", "SELL", "sell", "HOLD", "Fallback", "market", "75",
          "uptrend", "bullish", "downtrend", "bearish", "volatile",
          "volatility", "sideways", "range"}

\* String.prototype.toUpperCase on a word
toUpperCase(w) ==
    CASE w = "buy" -> "BUY"
      [] w = "sell" -> "SELL"
      [] w = "Fallback" -> "FALLBACK"
      [] w = "market" -> "MARKET"
      [] w = "uptrend" -> "UPTREND"
      [] OTHER -> w

\* String.prototype.includes, on a line and on a whole text
LineIncludes(line, w) == w \in line
includes(text, w) == \E i \in DOMAIN text : LineIncludes(text[i], w)

\* String.prototype.trim: blank lines at either end of the text go
RECURSIVE TrimStart(_)
TrimStart(text) ==
    IF text # <<>> /\ Head(text) = {} THEN TrimStart(Tail(text)) ELSE text

RECURSIVE TrimEnd(_)
TrimEnd(text) ==
    IF text # <<>> /\ text[Len(text)] = {}
    THEN TrimEnd(SubSeq(text, 1, Len(text) - 1))
    ELSE text

trim(text) == TrimEnd(TrimStart(text))

\* content.split("\n")[0].toUpperCase(); splitting an empty string gives one
\* empty line
FirstLineUpper(content) ==
    IF content = <<>> THEN {} ELSE {toUpperCase(w) : w \in content[1]}

\* The parser looking at every line of the reply
ParseDecision_AnyLine(text) ==
    LET upper == [i \in DOMAIN trim(text) |->
                     {toUpperCase(w) : w \in trim(text)[i]}]
    IN  IF includes(upper, "BUY") THEN "BUY"
        ELSE IF includes(upper, "SELL") THEN "SELL"
        ELSE "HOLD"

\* queryDeepSeek, extraction of the decision from the generated text
ParseDecision(text) ==
    LET content == trim(text)
        firstLine == FirstLineUpper(content)
    IN  IF LineIncludes(firstLine, "BUY") THEN "BUY"
        ELSE IF LineIncludes(firstLine, "SELL") THEN "SELL"
        ELSE "HOLD"

Local(mentions) == [source |-> "local", mentionsFallback |-> mentions]

\* fallbackTableAnalysis for the one query the pipeline asks: none of the
\* query kinds matches "Based on the technical indicators, should I buy,
\* sell, or hold?", and the default answer is given
fallbackTableAnalysis == [answer |-> <<{"HOLD"}>>, reasoning |-> Local(FALSE)]

\* fallbackSentimentAnalysis, the news given by the keyword weights found in
\* it (tenths); the score is in thousandths
fallbackSentimentAnalysis(newsData) ==
    [score |-> IF newsData.positive + newsData.negative = 0 THEN 500
               ELSE (1000 * newsData.positive)
                        \div (newsData.positive + newsData.negative),
     reasoning |-> Local(FALSE)]

\* The two prompts of analyzeSignals; the risk level of the long one stands
\* on a line of its own under the heading "Risk Level:"
LongPrompt(marketData, answer) ==
    [form |-> "long", rsi |-> marketData.rsi, macd |-> marketData.macd,
     signal |-> marketData.signal, answer |-> answer]

ShortPrompt(marketData) ==
    [form |-> "short", rsi |-> marketData.rsi, macd |-> marketData.macd,
     signal |-> marketData.signal, answer |-> NoText]

\* A prompt that names its four numbers the way the patterns of
\* fallbackDecisionMaking expect them, "RSI: 55, MACD: 0.1, Signal: 0.05,
\* Risk: 0.4", followed by free words
LabelledPrompt(rsi, macd, signal, riskLevel, words) ==
    [form |-> "labelled", rsi |-> rsi, macd |-> macd, signal |-> signal,
     answer |-> words, risk |-> riskLevel]

\* The indicators the regular expressions of fallbackDecisionMaking find in
\* a prompt.  "RSI: 75.00" matches, "RSI=75.00" matches neither pattern, and
\* no number follows the word "risk" in either prompt of analyzeSignals: the
\* defaults stand in.  Risk is in 1/10000.
ExtractIndicators(prompt) ==
    IF prompt.form = "labelled"
    THEN [rsi |-> prompt.rsi, macd |-> prompt.macd, signal |-> prompt.signal,
          risk |-> prompt.risk]
    ELSE IF prompt.form = "long"
    THEN [rsi |-> prompt.rsi, macd |-> prompt.macd, signal |-> prompt.signal,
          risk |-> 5000]
    ELSE [rsi |-> 50, macd |-> 0, signal |-> 0, risk |-> 5000]

\* The market conditions fallbackDecisionMaking detects in a prompt
marketConditions(prompt) ==
    [volatile |-> \/ includes(prompt.answer, "volatile")
                  \/ includes(prompt.answer, "volatility"),
     uptrend |-> \/ includes(prompt.answer, "uptrend")
                 \/ includes(prompt.answer, "bullish"),
     downtrend |-> \/ includes(prompt.answer, "downtrend")
                   \/ includes(prompt.answer, "bearish"),
     sideways |-> \/ includes(prompt.answer, "sideways")
                  \/ includes(prompt.answer, "range")]

\* The decision rules with the market conditions looked at before MACD
fallbackDecisionMaking_ConditionsFirst(prompt) ==
    LET indicators == ExtractIndicators(prompt)
        conditions == marketConditions(prompt)
        decision ==
            IF indicators.risk > 7000 THEN "HOLD"
            ELSE IF indicators.rsi > 70 THEN "SELL"
            ELSE IF indicators.rsi < 30 THEN "BUY"
            ELSE IF conditions.volatile /\ indicators.risk > 5000 THEN "HOLD"
            ELSE IF conditions.uptrend /\ indicators.risk < 6000 THEN "BUY"
            ELSE IF conditions.downtrend THEN "SELL"
            ELSE IF conditions.sideways THEN "HOLD"
            ELSE IF /\ indicators.macd > 0
                    /\ indicators.macd > indicators.signal
                    /\ indicators.risk < 5000 THEN "BUY"
            ELSE IF /\ indicators.macd < 0
                    /\ indicators.macd < indicators.signal THEN "SELL"
            ELSE "HOLD"
    IN  [decision |-> decision, reasoning |-> Local(FALSE)]

\* The decision rules with the RSI bounds themselves overbought and oversold
fallbackDecisionMaking_RsiInclusive(prompt) ==
    LET indicators == ExtractIndicators(prompt)
        conditions == marketConditions(prompt)
        decision ==
            IF indicators.risk > 7000 THEN "HOLD"
            ELSE IF indicators.rsi >= 70 THEN "SELL"
            ELSE IF indicators.rsi <= 30 THEN "BUY"
            ELSE IF /\ indicators.macd > 0
                    /\ indicators.macd > indicators.signal
                    /\ indicators.risk < 5000 THEN "BUY"
            ELSE IF /\ indicators.macd < 0
                    /\ indicators.macd < indicators.signal THEN "SELL"
            ELSE IF conditions.volatile /\ indicators.risk > 5000 THEN "HOLD"
            ELSE IF conditions.uptrend /\ indicators.risk < 6000 THEN "BUY"
            ELSE IF conditions.downtrend THEN "SELL"
            ELSE "HOLD"
    IN  [decision |-> decision, reasoning |-> Local(FALSE)]

\* fallbackDecisionMaking
fallbackDecisionMaking(prompt) ==
    LET indicators == ExtractIndicators(prompt)
        volatile == \/ includes(prompt.answer, "volatile")
                    \/ includes(prompt.answer, "volatility")
        uptrend == \/ includes(prompt.answer, "uptrend")
                   \/ includes(prompt.answer, "bullish")
        downtrend == \/ includes(prompt.answer, "downtrend")
                     \/ includes(prompt.answer, "bearish")
        decision ==
            IF indicators.risk > 7000 THEN "HOLD"
            ELSE IF indicators.rsi > 70 THEN "SELL"
            ELSE IF indicators.rsi < 30 THEN "BUY"
            ELSE IF /\ indicators.macd > 0
                    /\ indicators.macd > indicators.signal
                    /\ indicators.risk < 5000 THEN "BUY"
            ELSE IF /\ ~(indicators.macd > 0 /\ indicators.macd > indicators.signal)
                    /\ indicators.macd < 0
                    /\ indicators.macd < indicators.signal THEN "SELL"
            ELSE IF volatile /\ indicators.risk > 5000 THEN "HOLD"
            ELSE IF uptrend /\ indicators.risk < 6000 THEN "BUY"
            ELSE IF downtrend THEN "SELL"
            ELSE "HOLD"
    IN  [decision |-> decision, reasoning |-> Local(FALSE)]

\* fallbackSummarization: only its reasoning reaches the result
fallbackSummarization == [reasoning |-> Local(FALSE)]

----------------------------------------------------------------------------
(* Signal pipeline: the inference client and the cascades *)

Stages == {"tapas", "distilbert", "deepseek", "bart"}

\* The endpoints each stage asks, in the order it asks them
Cascade(stage) ==
    CASE stage = "tapas" ->
            <<"google/tapas-base-finetuned-wtq",
              "google/tapas-large-finetuned-wtq",
              "google/tapas-base">>
      [] stage = "distilbert" ->
            <<"distilbert/distilbert-base-uncased-finetuned-sst-2-english">>
      [] stage = "deepseek" ->
            <<"api-inference.huggingface.co", "api.deepseek.com">>
      [] stage = "bart" -> <<"facebook/bart-large-cnn">>

\* The modelType an attempt of the stage is tracked under
TrackedAs(stage) == IF stage = "deepseek" THEN "flant5" ELSE stage

\* Ways a request to an endpoint ends other than well: a 401, a 429, a 503,
\* a 2xx answer that is not JSON, a 2xx answer that is JSON but lacks what
\* the caller needs, the AbortSignal firing
Failures ==
    {"unauthorized", "rateLimited", "unavailable", "nonJson", "malformed", "timeout"}

TapasAnswers == {<<{"75"}>>, <<{"uptrend"}>>}
PositiveScores == {0, 900}
GeneratedTexts ==
    {<<{"BUY"}, {"SELL"}>>,
     <<{"sell", "market"}, {"BUY"}>>,
     <<{"market"}, {"BUY"}>>,
     <<{}, {"SELL"}>>,
     <<{"HOLD"}, {"Fallback"}>>}

Rejection(kind) == [outcome |-> kind, answer |-> NoText, score |-> 0]

\* What can come back from an endpoint of the stage
Responses(stage) ==
    IF stage \notin Stages THEN {}
    ELSE
    {Rejection(kind) : kind \in Failures} \cup
    CASE stage = "tapas" ->
            {[outcome |-> "success", answer |-> t, score |-> 0] : t \in TapasAnswers}
      [] stage = "distilbert" ->
            {[outcome |-> "success", answer |-> NoText, score |-> p] :
                p \in PositiveScores}
      [] stage = "deepseek" ->
            {[outcome |-> "success", answer |-> t, score |-> 0] :
                t \in GeneratedTexts}
      [] stage = "bart" ->
            {[outcome |-> "success", answer |-> NoText, score |-> 0]}

TokenNotSet == <<"Hugging Face API token is not set.">>

\* Every failure reported as a lost connection
ClientStatus_AlwaysDisconnected(kind) == "disconnected"

\* queryHuggingFace: the status and the message it reports for a failure
ClientStatus(kind) ==
    IF kind \in {"nonJson", "malformed"} THEN "degraded" ELSE "disconnected"

ClientError(kind) ==
    CASE kind = "unauthorized" -> <<"Hugging Face API error (401)">>
      [] kind = "rateLimited" -> <<"Hugging Face API error (429)">>
      [] kind = "unavailable" ->
            <<"Hugging Face service is temporarily unavailable.">>
      [] kind = "nonJson" -> <<"Invalid response content type">>
      [] kind = "malformed" -> <<"Invalid response">>
      [] kind = "timeout" -> <<"Unexpected error querying Hugging Face API">>

\* queryDeepSeek: the message its outer catch makes of what was thrown
DeepSeekError(kind) ==
    CASE kind = "unauthorized" -> <<"Authentication error with DeepSeek API.">>
      [] kind = "rateLimited" -> <<"Rate limit exceeded for DeepSeek API.">>
      [] kind = "unavailable" -> <<"DeepSeek API is temporarily unavailable.">>
      [] kind = "nonJson" -> <<"Error querying DeepSeek: ", "Unexpected token">>
      [] kind = "malformed" -> <<"Error querying DeepSeek: ", "Invalid response format">>
      [] kind = "timeout" -> <<"Error querying DeepSeek: ", "timeout">>
      [] kind = "noToken" -> <<"Error querying DeepSeek: ", TokenNotSet[1]>>

\* The attempts the request has made in the stage
StageAttempts(a, stage) == SelectSeq(a.attempts, LAMBDA t : t.stage = stage)

\* The stage asks the endpoint at position tier of its cascade.  With the
\* token set the request goes out.  Without it queryHuggingFace reports and
\* records the failure and rejects before any request, and queryDeepSeek
\* makes no attempt at all: it reports, decides locally and records.
Issue(a, store, stage, tier) ==
    LET attempt(sent, outcome) ==
            [stage |-> stage, endpoint |-> Cascade(stage)[tier],
             sent |-> sent, outcome |-> outcome]
    IN  IF apiToken = "set"
        THEN [a |-> [a EXCEPT !.pc = stage, !.awaiting = "fetch",
                              !.attempts = Append(@, attempt(TRUE, "pending"))],
              store |-> store]
        ELSE IF stage = "deepseek"
        THEN [a |-> [a EXCEPT
                        !.pc = stage, !.awaiting = "settled",
                        !.flantResult = fallbackDecisionMaking(
                            LongPrompt(a.marketData, a.tapasResult.answer))],
              store |-> recordPrediction(
                            updateConnectionStatus(store, "flant5", "disconnected",
                                                   DeepSeekError("noToken")),
                            Measured("flant5", FALSE))]
        ELSE [a |-> [a EXCEPT
                        !.pc = stage, !.awaiting = "settled",
                        !.attempts = Append(@, attempt(FALSE, "failed")),
                        !.last = attempt(FALSE, "unauthorized"),
                        !.response = Rejection("unauthorized")],
              store |-> recordPrediction(
                            updateConnectionStatus(store, TrackedAs(stage),
                                                   "disconnected", TokenNotSet),
                            Measured(TrackedAs(stage), FALSE))]

\* The end of analyzeSignals: the result is put together
ModelResults(a) ==
    [decision |-> a.flantResult.decision,
     riskScore |-> calculateRiskScore(a.marketData, a.sentimentResult.score),
     tapasReasoning |-> a.tapasResult.reasoning,
     sentimentReasoning |-> a.sentimentResult.reasoning,
     decisionReasoning |-> a.flantResult.reasoning,
     summaryReasoning |-> NoReasoning,
     tapasUsingFallback |-> a.tapasUsingFallback,
     sentimentUsingFallback |-> a.sentimentUsingFallback,
     decisionUsingFallback |-> a.decisionUsingFallback,
     summaryUsingFallback |-> FALSE]

\* The query function of the stage has returned value to analyzeSignals,
\* which sets the stage's flag from the reasoning and goes on to the next
\* stage
StageDone(a, store, value) ==
    CASE a.pc = "tapas" ->
            Issue([a EXCEPT !.tapasResult = value,
                            !.tapasUsingFallback = value.reasoning.mentionsFallback],
                  store, "distilbert", 1)
      [] a.pc = "distilbert" ->
            Issue([a EXCEPT !.sentimentResult = value,
                            !.sentimentUsingFallback = value.reasoning.mentionsFallback],
                  store, "deepseek", 1)
      [] a.pc = "deepseek" ->
            Issue([a EXCEPT !.flantResult = value,
                            !.decisionUsingFallback = value.reasoning.mentionsFallback],
                  store, "bart", 1)
      [] a.pc = "bart" ->
            [a |-> [a EXCEPT
                      !.pc = "done", !.awaiting = "none",
                      !.result = [ModelResults(a) EXCEPT
                          !.summaryReasoning = value.reasoning,
                          !.summaryUsingFallback = value.reasoning.mentionsFallback]],
             store |-> store]

Remote(a, mentions) ==
    [source |-> a.attempts[Len(a.attempts)].endpoint, mentionsFallback |-> mentions]

\* What the query function of the stage makes of a good response
Value(a, response) ==
    CASE a.pc = "tapas" ->
            [answer |-> response.answer,
             reasoning |-> Remote(a, includes(response.answer, "Fallback"))]
      [] a.pc = "distilbert" ->
            [score |-> IF response.score = 0 THEN 500 ELSE response.score,
             reasoning |-> Remote(a, FALSE)]
      [] a.pc = "deepseek" ->
            [decision |-> ParseDecision(response.answer),
             reasoning |-> Remote(a, includes(trim(response.answer), "Fallback"))]
      [] a.pc = "bart" -> [reasoning |-> Remote(a, FALSE)]

\* What the local heuristic of the stage gives
Heuristic(a) ==
    CASE a.pc = "tapas" -> fallbackTableAnalysis
      [] a.pc = "distilbert" -> fallbackSentimentAnalysis(a.newsData)
      [] a.pc = "deepseek" ->
            fallbackDecisionMaking(LongPrompt(a.marketData, a.tapasResult.answer))
      [] a.pc = "bart" -> fallbackSummarization

\* queryDeepSeek tracks once, when it is through: connected after a good
\* response, disconnected after the second endpoint failed too
DeepSeekTracked(a, store, response) ==
    IF a.pc # "deepseek" THEN store
    ELSE IF response.outcome = "success"
    THEN recordPrediction(
            updateConnectionStatus(store, "flant5", "connected", NoMessage),
            Measured("flant5", TRUE))
    ELSE recordPrediction(
            updateConnectionStatus(store, "flant5", "disconnected",
                                   DeepSeekError(response.outcome)),
            Measured("flant5", FALSE))

\* The cascade with a timeout ending it at once
Continue_TimeoutEndsCascade(a, store, response) ==
    LET tier == Len(StageAttempts(a, a.pc))
    IN  IF response.outcome = "success"
        THEN StageDone(a, DeepSeekTracked(a, store, response), Value(a, response))
        ELSE IF tier < Len(Cascade(a.pc)) /\ response.outcome # "timeout"
        THEN Issue(a, store, a.pc, tier + 1)
        ELSE StageDone(a, DeepSeekTracked(a, store, response), Heuristic(a))

\* The cascade with the last endpoint asked once more after it failed
Continue_RetriesLastTier(a, store, response) ==
    LET tier == Len(StageAttempts(a, a.pc))
    IN  IF response.outcome = "success"
        THEN StageDone(a, DeepSeekTracked(a, store, response), Value(a, response))
        ELSE IF tier < Len(Cascade(a.pc))
        THEN Issue(a, store, a.pc, tier + 1)
        ELSE IF tier = Len(Cascade(a.pc))
        THEN Issue(a, store, a.pc, tier)
        ELSE StageDone(a, DeepSeekTracked(a, store, response), Heuristic(a))

\* The cascade going on after a good response
Continue_AsksOn(a, store, response) ==
    LET tier == Len(StageAttempts(a, a.pc))
    IN  IF tier < Len(Cascade(a.pc))
        THEN Issue(a, store, a.pc, tier + 1)
        ELSE IF response.outcome = "success"
        THEN StageDone(a, DeepSeekTracked(a, store, response), Value(a, response))
        ELSE StageDone(a, DeepSeekTracked(a, store, response), Heuristic(a))

\* The query function of the stage goes on after an attempt: a good response
\* is returned, a failure of whatever kind makes it ask the next endpoint of
\* the cascade, and after the last endpoint it returns what the local
\* heuristic gives
Continue(a, store, response) ==
    LET tier == Len(StageAttempts(a, a.pc))
    IN  IF response.outcome = "success"
        THEN StageDone(a, DeepSeekTracked(a, store, response), Value(a, response))
        ELSE IF tier < Len(Cascade(a.pc))
        THEN Issue(a, store, a.pc, tier + 1)
        ELSE StageDone(a, DeepSeekTracked(a, store, response), Heuristic(a))

\* queryHuggingFace writing the status and the record only where the model
\* has no status yet
Tracked_FirstWriterOnly(store, stage, response) ==
    IF stage = "deepseek" \/ store.connectionStatus[TrackedAs(stage)].status # "unknown"
    THEN store
    ELSE recordPrediction(
            updateConnectionStatus(
                store, TrackedAs(stage),
                IF response.outcome = "success" THEN "connected"
                ELSE ClientStatus(response.outcome),
                IF response.outcome = "success" THEN NoMessage
                ELSE ClientError(response.outcome)),
            Measured(TrackedAs(stage), response.outcome = "success"))

\* queryHuggingFace recording only in the try block, which a throw leaves
Tracked_NoFinally(store, stage, response) ==
    IF stage = "deepseek" THEN store
    ELSE IF response.outcome = "success"
    THEN recordPrediction(
            updateConnectionStatus(store, TrackedAs(stage), "connected", NoMessage),
            Measured(TrackedAs(stage), TRUE))
    ELSE updateConnectionStatus(store, TrackedAs(stage),
                                ClientStatus(response.outcome),
                                ClientError(response.outcome))

\* queryHuggingFace reports and records the outcome of a request that went
\* out; queryDeepSeek does neither per request
Tracked(store, stage, response) ==
    IF stage = "deepseek" THEN store
    ELSE IF response.outcome = "success"
    THEN recordPrediction(
            updateConnectionStatus(store, TrackedAs(stage), "connected", NoMessage),
            Measured(TrackedAs(stage), TRUE))
    ELSE recordPrediction(
            updateConnectionStatus(store, TrackedAs(stage),
                                   ClientStatus(response.outcome),
                                   ClientError(response.outcome)),
            Measured(TrackedAs(stage), FALSE))

\* The attempt in flight is marked with the way it ended
Settled(a, response) ==
    LET n == Len(a.attempts)
    IN  [a EXCEPT
            !.attempts[n].outcome =
                IF response.outcome = "success" THEN "success" ELSE "failed",
            !.last = [a.attempts[n] EXCEPT !.outcome = response.outcome],
            !.response = response]

----------------------------------------------------------------------------
(* Specification: one analyzeSignals call *)

PipelineSnapshots ==
    {[rsi |-> 75, macd |-> 100, signal |-> 50, volume |-> 2000000],
     [rsi |-> 25, macd |-> 100, signal |-> 50, volume |-> 1000000],
     [rsi |-> 50, macd |-> -100, signal |-> 50, volume |-> 1000000],
     [rsi |-> 50, macd |-> 100, signal |-> 50, volume |-> 2000000],
     [rsi |-> 75, macd |-> 50, signal |-> 100, volume |-> 2000000]}

PipelineNews == {[positive |-> 0, negative |-> 0], [positive |-> 3, negative |-> 9]}

\* The store as an attempt of another request has left it
UsedStore ==
    recordPrediction(
        updateConnectionStatus(EmptyStore, "tapas", "connected", NoMessage),
        Measured("tapas", TRUE))

InitPipeline ==
    /\ TradingAtRest
    /\ apiToken \in {"set", "missing"}
    /\ serverStore \in {EmptyStore, UsedStore}
    /\ clients = {"r1"}
    /\ analysis = [r \in Requests |-> NoAnalysis]
    /\ calc = NoCalc

\* analyzeSignals in fallback mode with a prediction recorded for it
UseFallback_Tracked(a, store) ==
    [a |-> [a EXCEPT !.pc = "done",
                     !.result = [ModelResults(a) EXCEPT
                                    !.decision = "HOLD",
                                    !.tapasUsingFallback = TRUE,
                                    !.sentimentUsingFallback = TRUE,
                                    !.decisionUsingFallback = TRUE,
                                    !.summaryUsingFallback = TRUE]],
     store |-> recordPrediction(store, Measured("tapas", FALSE))]

\* analyzeSignals in fallback mode: the four heuristics are called one after
\* the other and the result is returned with every flag set
UseFallback(a, store) ==
    LET tapasResult == fallbackTableAnalysis
        sentimentResult == fallbackSentimentAnalysis(a.newsData)
        flantResult == fallbackDecisionMaking(ShortPrompt(a.marketData))
        bartResult == fallbackSummarization
    IN  [a |-> [a EXCEPT
                  !.pc = "done",
                  !.tapasResult = tapasResult,
                  !.sentimentResult = sentimentResult,
                  !.flantResult = flantResult,
                  !.result =
                     [decision |-> flantResult.decision,
                      riskScore |-> calculateRiskScore(a.marketData,
                                                       sentimentResult.score),
                      tapasReasoning |-> tapasResult.reasoning,
                      sentimentReasoning |-> sentimentResult.reasoning,
                      decisionReasoning |-> flantResult.reasoning,
                      summaryReasoning |-> bartResult.reasoning,
                      tapasUsingFallback |-> TRUE,
                      sentimentUsingFallback |-> TRUE,
                      decisionUsingFallback |-> TRUE,
                      summaryUsingFallback |-> TRUE]],
         store |-> store]

\* analyzeSignals is called: up to its first await
Analyze(r, marketData, newsData, useFallback) ==
    /\ r \in clients
    /\ analysis[r].pc = "idle"
    /\ LET a == [analysis[r] EXCEPT !.marketData = marketData,
                                    !.newsData = newsData,
                                    !.useFallback = useFallback]
           next == IF useFallback THEN UseFallback(a, serverStore)
                   ELSE Issue(a, serverStore, "tapas", 1)
       IN  /\ analysis' = [analysis EXCEPT ![r] = next.a]
           /\ serverStore' = next.store
    /\ UNCHANGED <<manager, tradeVars, apiToken, clients, calc>>

\* The request in flight comes back, whichever way, and the call runs on to
\* its next await or to its end.  a, store and next are each worked out once.
AttemptReturns(r, response) ==
    /\ analysis[r].awaiting = "fetch"
    /\ response \in Responses(analysis[r].pc)
    /\ \E a \in {Settled(analysis[r], response)} :
       \E store \in {Tracked(serverStore, a.pc, response)} :
       \E next \in {Continue(a, store, response)} :
           /\ analysis' = [analysis EXCEPT ![r] = next.a]
           /\ serverStore' = next.store
    /\ UNCHANGED <<manager, tradeVars, apiToken, clients, calc>>

\* A query function that settled without a request is awaited: the call runs
\* on from the rejection of queryHuggingFace, or from what queryDeepSeek
\* returned
Resumes(r) ==
    /\ analysis[r].awaiting = "settled"
    /\ \E a \in {analysis[r]} :
       \E next \in {IF a.pc = "deepseek"
                     THEN StageDone(a, serverStore, a.flantResult)
                     ELSE Continue(a, serverStore, Rejection("unauthorized"))} :
           /\ analysis' = [analysis EXCEPT ![r] = next.a]
           /\ serverStore' = next.store
    /\ UNCHANGED <<manager, tradeVars, apiToken, clients, calc>>

NextPipeline ==
    \/ \E r \in Requests, marketData \in PipelineSnapshots,
          newsData \in PipelineNews, useFallback \in BOOLEAN :
          Analyze(r, marketData, newsData, useFallback)
    \/ \E r \in Requests :
          \E response \in Responses(analysis[r].pc) : AttemptReturns(r, response)
    \/ \E r \in Requests : Resumes(r)

SpecPipeline == InitPipeline /\ [][NextPipeline]_vars

----------------------------------------------------------------------------
(* Properties of the signal pipeline *)

Finished(r) == analysis[r].pc = "done"

\* analyzeSignals was called in the normal mode and has returned
Analyzed(r) == Finished(r) /\ ~analysis[r].useFallback

\* The stage is over for the request
StageOver(a, stage) ==
    CASE stage = "tapas" -> a.pc \in {"distilbert", "deepseek", "bart", "done"}
      [] stage = "distilbert" -> a.pc \in {"deepseek", "bart", "done"}
      [] stage = "deepseek" -> a.pc \in {"bart", "done"}
      [] stage = "bart" -> a.pc = "done"

\* Every attempt the request made in the stage failed
EveryAttemptFailed(a, stage) ==
    \A i \in DOMAIN a.attempts :
        a.attempts[i].stage = stage => a.attempts[i].outcome = "failed"

\* The stage's fallback flag in the result
StageFlag(res, stage) ==
    CASE stage = "tapas" -> res.tapasUsingFallback
      [] stage = "distilbert" -> res.sentimentUsingFallback
      [] stage = "deepseek" -> res.decisionUsingFallback
      [] stage = "bart" -> res.summaryUsingFallback

\* The useFallback field of the route's response
UsedFallback(a) ==
    \/ a.useFallback
    \/ a.result.tapasUsingFallback
    \/ a.result.sentimentUsingFallback
    \/ a.result.decisionUsingFallback
    \/ a.result.summaryUsingFallback

\* C13: with force-fallback off, a stage all of whose remote attempts failed
\* has its fallback flag set in the result, and the overall flag is set
\* exactly when one of the four stage flags is
C13_FlagsTellFallback ==
    \A r \in Requests :
        Analyzed(r) =>
            /\ \A stage \in Stages :
                  EveryAttemptFailed(analysis[r], stage)
                      => StageFlag(analysis[r].result, stage)
            /\ UsedFallback(analysis[r])
                  <=> \E stage \in Stages : StageFlag(analysis[r].result, stage)

Decisions == {"BUY", "SELL", "HOLD"}

\* The decision stage has just returned what it made of a remote reply
Replied(r) ==
    /\ analysis[r].pc = "bart"
    /\ analysis[r].last.stage = "deepseek"
    /\ analysis[r].last.outcome = "success"

\* The decision tokens on a line, letter case apart
TokensOn(line) == {t \in Decisions : t \in {toUpperCase(w) : w \in line}}

\* The decision is a token of the line, and HOLD when the line has none
TakenFrom(decision, line) ==
    IF TokensOn(line) = {} THEN decision = "HOLD" ELSE decision \in TokensOn(line)

FirstLine(text) == IF text = <<>> THEN {} ELSE text[1]

\* C14 as stated: the decision of a finished analysis is BUY, SELL or HOLD,
\* and after a free-text reply it is a token of the reply's first line, HOLD
\* when that line holds none
C14_TokenFromFirstLine ==
    \A r \in Requests :
        /\ Finished(r) => analysis[r].result.decision \in Decisions
        /\ Replied(r) =>
              TakenFrom(analysis[r].flantResult.decision,
                        FirstLine(analysis[r].response.answer))

\* C14: the decision of a finished analysis is BUY, SELL or HOLD, and after
\* a free-text reply it is a token of the first line of the reply with the
\* white space at its ends trimmed off (the first line that is not blank),
\* HOLD when that line holds none
C14_TokenFromFirstLineOfTrimmed ==
    \A r \in Requests :
        /\ Finished(r) => analysis[r].result.decision \in Decisions
        /\ Replied(r) =>
              TakenFrom(analysis[r].flantResult.decision,
                        FirstLine(trim(analysis[r].response.answer)))

\* C14 witness: a reply that begins with a blank line and has SELL on the
\* next one was made into SELL
C14_Witness ==
    \E r \in Requests :
        /\ Replied(r)
        /\ analysis[r].response.answer = <<{}, {"SELL"}>>
        /\ analysis[r].flantResult.decision = "SELL"

\* A result with every field filled in
Complete(res) ==
    /\ res.decision \in Decisions
    /\ res.riskScore \in 0..10000
    /\ \A reasoning \in {res.tapasReasoning, res.sentimentReasoning,
                         res.decisionReasoning, res.summaryReasoning} :
          reasoning.source # NULL
    /\ {res.tapasUsingFallback, res.sentimentUsingFallback,
        res.decisionUsingFallback, res.summaryUsingFallback} \subseteq BOOLEAN

\* Attempt i of the request was at the last endpoint of its stage's cascade
LastTier(a, i) ==
    a.attempts[i].endpoint
        = Cascade(a.attempts[i].stage)[Len(Cascade(a.attempts[i].stage))]

\* Attempt i + 1 of the request is at the endpoint that follows the one of
\* attempt i in the cascade of the same stage
NextTier(a, i) ==
    /\ i + 1 \in DOMAIN a.attempts
    /\ a.attempts[i + 1].stage = a.attempts[i].stage
    /\ \E k \in DOMAIN Cascade(a.attempts[i].stage) :
          /\ k + 1 \in DOMAIN Cascade(a.attempts[i].stage)
          /\ a.attempts[i].endpoint = Cascade(a.attempts[i].stage)[k]
          /\ a.attempts[i + 1].endpoint = Cascade(a.attempts[i].stage)[k + 1]

\* The query function has been told how attempt i ended
Delivered(a, i) == ~(i = Len(a.attempts) /\ a.awaiting = "settled")

\* C17: whatever comes back from the remote calls, the analysis goes on: a
\* call under way can take every response its stage may get, a failed
\* attempt, the timed-out one like any other, is followed by the next tier
\* of the cascade, and a finished call has a complete result
C17_EveryOutcomeHandled ==
    \A r \in Requests :
        LET a == analysis[r]
        IN  /\ a.pc \in Stages =>
                \/ a.awaiting = "settled" /\ ENABLED Resumes(r)
                \/ /\ a.awaiting = "fetch"
                   /\ \A response \in Responses(a.pc) :
                          ENABLED AttemptReturns(r, response)
            /\ \A i \in DOMAIN a.attempts :
                  (/\ a.attempts[i].outcome = "failed"
                   /\ Delivered(a, i)
                   /\ ~LastTier(a, i)) => NextTier(a, i)
            /\ (a.last.outcome = "timeout" /\ a.last.stage = a.pc)
                  => a.attempts[Len(a.attempts)].outcome = "pending"
            /\ Finished(r) => Complete(a.result)

\* C17 witness: a call has finished although every one of its seven remote
\* attempts failed, the last one by timing out
C17_Witness ==
    \E r \in Requests :
        /\ Analyzed(r)
        /\ Len(analysis[r].attempts) = Len(Cascade("tapas")) + Len(Cascade("deepseek")) + Len(Cascade("distilbert")) + Len(Cascade("bart"))
        /\ \A stage \in Stages : EveryAttemptFailed(analysis[r], stage)
        /\ \A i \in DOMAIN analysis[r].attempts : analysis[r].attempts[i].sent
        /\ analysis[r].last.outcome = "timeout"
        /\ Complete(analysis[r].result)

\* A call in fallback mode has returned
Forced(r) == Finished(r) /\ analysis[r].useFallback

\* C18: a call in force-fallback mode makes no attempt at the inference
\* client, takes its four values from the local heuristics, returns with all
\* four fallback flags set, and leaves the tracker's predictions, metrics and
\* connection status as they were
C18_ForcedFallbackIsLocal ==
    [][\A r \in Requests :
          (analysis'[r].pc # analysis[r].pc /\ analysis'[r].useFallback) =>
              /\ analysis'[r].pc = "done"
              /\ analysis'[r].attempts = <<>>
              /\ serverStore' = serverStore
              /\ analysis'[r].tapasResult = fallbackTableAnalysis
              /\ analysis'[r].sentimentResult
                    = fallbackSentimentAnalysis(analysis'[r].newsData)
              /\ analysis'[r].result.decision
                    = fallbackDecisionMaking(ShortPrompt(analysis'[r].marketData)).decision
              /\ \A stage \in Stages : StageFlag(analysis'[r].result, stage)
              /\ \A reasoning \in {analysis'[r].result.tapasReasoning,
                                   analysis'[r].result.sentimentReasoning,
                                   analysis'[r].result.decisionReasoning,
                                   analysis'[r].result.summaryReasoning} :
                    reasoning.source = "local"]_vars

\* C18 witness: a call in force-fallback mode has returned with its four
\* flags set while the tracker holds what an earlier attempt left in it
C18_Witness ==
    \E r \in Requests :
        /\ Forced(r)
        /\ analysis[r].attempts = <<>>
        /\ \A stage \in Stages : StageFlag(analysis[r].result, stage)
        /\ serverStore = UsedStore

\* The attempts the request made at the table models
TapasAttempts(r) == StageAttempts(analysis[r], "tapas")

\* C19: the table stage asks the primary model, the first alternate and the
\* second alternate in this order, asks a model only after the one before it
\* failed, returns the answer of the first attempt that succeeds without
\* asking further, and runs the local heuristic only after all three failed
C19_TapasCascadeInOrder ==
    \A r \in Requests :
        LET a == analysis[r]
            t == TapasAttempts(r)
        IN  /\ Len(t) <= Len(Cascade("tapas"))
            /\ \A i \in DOMAIN t :
                  /\ t[i].endpoint = Cascade("tapas")[i]
                  /\ i < Len(t) => t[i].outcome = "failed"
            /\ (a.last.stage = "tapas" /\ a.last.outcome = "success") =>
                  /\ a.pc = "distilbert"
                  /\ a.tapasResult.answer = a.response.answer
                  /\ a.tapasResult.reasoning.source = a.last.endpoint
            /\ (StageOver(a, "tapas") /\ ~a.useFallback) =>
                  (a.tapasResult.reasoning.source = "local"
                      <=> /\ Len(t) = Len(Cascade("tapas"))
                          /\ EveryAttemptFailed(a, "tapas"))

\* C19 witness: the primary model and the first alternate failed, the second
\* alternate answered, and its answer is the stage's
C19_Witness ==
    \E r \in Requests :
        /\ analysis[r].pc = "distilbert"
        /\ Len(TapasAttempts(r)) = Len(Cascade("tapas"))
        /\ TapasAttempts(r)[Len(TapasAttempts(r))].outcome = "success"
        /\ analysis[r].last.endpoint = "google/tapas-base"
        /\ analysis[r].tapasResult.answer = analysis[r].response.answer
        /\ analysis[r].tapasResult.answer \in TapasAnswers

\* The value of the stage as the request holds it
StageValue(a, stage) ==
    CASE stage = "tapas" -> a.tapasResult
      [] stage = "distilbert" -> a.sentimentResult
      [] stage = "deepseek" -> a.flantResult
      [] stage = "bart" -> [reasoning |-> a.result.summaryReasoning]

\* C20: after an attempt has failed as unauthorized no further request goes
\* out for that stage, neither to an alternate model nor to a second
\* endpoint, and the stage's value is the local heuristic's
C20_UnauthorizedEndsCascade ==
    \A r \in Requests :
        LET a == analysis[r]
            n == Len(a.attempts)
        IN  a.last.outcome = "unauthorized" =>
                /\ ~(/\ a.attempts[n].stage = a.last.stage
                     /\ a.attempts[n].outcome = "pending"
                     /\ a.attempts[n].sent)
                /\ StageOver(a, a.last.stage)
                      => StageValue(a, a.last.stage).reasoning.source = "local"

----------------------------------------------------------------------------
(* Properties of the decision made without the remote model *)

\* The decision of the finished call is the one fallbackDecisionMaking made
DecidedLocally(r) ==
    Finished(r) /\ analysis[r].result.decisionReasoning.source = "local"

\* C21: a decision that the local decision rules produced, in a call whose
\* remote decision failed or that ran in fallback mode, is HOLD whenever the
\* risk score of the call is above 0.7, whatever RSI and MACD are
C21_HighRiskHolds ==
    \A r \in Requests :
        (DecidedLocally(r) /\ analysis[r].result.riskScore > 7000)
            => analysis[r].result.decision = "HOLD"

\* C22: a call in fallback mode decides from the indicators of its snapshot:
\* with the risk score at most 0.7 it returns SELL for an RSI above 70 and
\* BUY for an RSI below 30
C22_ForcedDecisionFollowsRsi ==
    \A r \in Requests :
        (Forced(r) /\ analysis[r].result.riskScore <= 7000) =>
            /\ analysis[r].marketData.rsi > 70
                  => analysis[r].result.decision = "SELL"
            /\ analysis[r].marketData.rsi < 30
                  => analysis[r].result.decision = "BUY"

----------------------------------------------------------------------------
(* Specification: fallbackDecisionMaking on prompts that name their numbers *)

DecidedPrompts ==
    {LabelledPrompt(rsi, macd, signal, riskLevel, words) :
        rsi \in {29, 30, 31, 69, 70, 71},
        macd \in {-100, 20, 100},
        signal \in {-200, 50},
        riskLevel \in {4000, 5000, 5500, 6500, 7000, 7100},
        words \in {<<>>, <<{"uptrend"}>>, <<{"downtrend"}>>, <<{"volatile"}>>}}

InitDecide ==
    /\ TradingAtRest
    /\ apiToken = "set"
    /\ serverStore = EmptyStore
    /\ clients = {}
    /\ analysis = [r \in Requests |-> NoAnalysis]
    /\ calc \in [fn : {"pending"}, prompt : DecidedPrompts, value : {NULL}]

Decide ==
    /\ calc.fn = "pending"
    /\ calc' = [calc EXCEPT !.fn = "fallbackDecisionMaking",
                            !.value = fallbackDecisionMaking(calc.prompt).decision]
    /\ UNCHANGED <<manager, tradeVars, apiToken, serverStore, clients, analysis>>

NextDecide == Decide

SpecDecide == InitDecide /\ [][NextDecide]_vars

Decided == calc.fn = "fallbackDecisionMaking"

\* The rules in their order: risk, RSI, MACD, market conditions, HOLD
MidRange(p) == p.risk <= 7000 /\ p.rsi >= 30 /\ p.rsi <= 70
Above(p) == p.macd > p.signal
Below(p) == p.macd < p.signal

\* C23 as stated: with the risk at most 0.7 and the RSI from 30 to 70, a MACD
\* above its signal line with the risk below 0.5 gives BUY and a MACD below
\* its signal line gives SELL, whatever the sign of the MACD and whatever
\* market conditions the prompt mentions
C23_MacdRule ==
    (Decided /\ MidRange(calc.prompt)) =>
        /\ (Above(calc.prompt) /\ calc.prompt.risk < 5000) => calc.value = "BUY"
        /\ Below(calc.prompt) => calc.value = "SELL"

\* C23: with the risk at most 0.7 and the RSI from 30 to 70, a positive MACD
\* above its signal line with the risk below 0.5 gives BUY and a negative
\* MACD below its signal line gives SELL, whatever market conditions the
\* prompt mentions; otherwise the market conditions decide, a volatile
\* market with risk above 0.5 HOLD, else an uptrend with risk below 0.6 BUY,
\* else a downtrend SELL, and without any of them the decision is HOLD
C23_SignedMacdRule ==
    (Decided /\ MidRange(calc.prompt)) =>
        LET p == calc.prompt
            conditions == marketConditions(p)
            bullish == p.macd > 0 /\ Above(p) /\ p.risk < 5000
            bearish == p.macd < 0 /\ Below(p)
        IN  /\ bullish => calc.value = "BUY"
            /\ bearish => calc.value = "SELL"
            /\ (~bullish /\ ~bearish) =>
                  calc.value =
                     IF conditions.volatile /\ p.risk > 5000 THEN "HOLD"
                     ELSE IF conditions.uptrend /\ p.risk < 6000 THEN "BUY"
                     ELSE IF conditions.downtrend THEN "SELL"
                     ELSE "HOLD"

\* C23 witness: a negative MACD below its signal line has given SELL for a
\* prompt that mentions an uptrend
C23_Witness ==
    /\ Decided
    /\ MidRange(calc.prompt)
    /\ calc.prompt.macd < 0
    /\ Below(calc.prompt)
    /\ marketConditions(calc.prompt).uptrend
    /\ calc.prompt.risk < 6000
    /\ calc.value = "SELL"

\* C24: with the risk at most 0.7, an RSI of exactly 70 or exactly 30 leaves
\* the decision to the rules after the RSI rule, an RSI of 71 gives SELL and
\* an RSI of 29 gives BUY
C24_RsiBoundsAreStrict ==
    (Decided /\ calc.prompt.risk <= 7000) =>
        /\ calc.prompt.rsi = 71 => calc.value = "SELL"
        /\ calc.prompt.rsi = 29 => calc.value = "BUY"
        /\ calc.prompt.rsi \in {30, 70} =>
              calc.value =
                  fallbackDecisionMaking(
                      [calc.prompt EXCEPT !.rsi = 50]).decision

\* C24 witness: an RSI of exactly 70 went past the overbought rule to BUY,
\* and it was the MACD rule that decided
C24_Witness ==
    /\ Decided
    /\ calc.prompt.rsi = 70
    /\ calc.prompt.risk < 5000
    /\ calc.prompt.macd > 0
    /\ Above(calc.prompt)
    /\ calc.value = "BUY"

----------------------------------------------------------------------------
(* Properties of the tracker as the clients use it *)

\* The stages asked through queryHuggingFace
ThroughClient == Stages \ {"deepseek"}

\* The response ends the invocation: every request of queryHuggingFace is an
\* invocation of its own, one of queryDeepSeek ends with a good response or
\* with the failure of its second endpoint
Completes(a, response) ==
    \/ a.pc \in ThroughClient
    \/ response.outcome = "success"
    \/ Len(StageAttempts(a, a.pc)) = Len(Cascade(a.pc))

\* The status the specification states for an outcome, where it states one
StatedStatus(kind) ==
    CASE kind = "success" -> "connected"
      [] kind \in {"nonJson", "unavailable"} -> "disconnected"
      [] kind = "malformed" -> "degraded"
      [] OTHER -> "unstated"

\* The status the two clients write for an outcome
WrittenStatus(stage, kind) ==
    CASE kind = "success" -> "connected"
      [] kind \in {"nonJson", "malformed"} /\ stage \in ThroughClient -> "degraded"
      [] OTHER -> "disconnected"

StatusOf(store, modelType) == store.connectionStatus[modelType].status

\* The step starts an invocation of the stage that ends, for want of a
\* token, before any request
RejectedAtOnce(r, stage) ==
    /\ analysis'[r].pc = stage
    /\ analysis'[r].awaiting = "settled"
    /\ \/ Len(analysis'[r].attempts) > Len(analysis[r].attempts)
       \/ analysis[r].pc # stage

\* C25 as stated: after an invocation the status of its capability is
\* connected for a success, disconnected for an answer that is not JSON or
\* a 5xx status, degraded for a well-formed answer that lacks something
C25_StatusAsStated ==
    [][\A r \in Requests :
         \A response \in Responses(analysis[r].pc) :
            (/\ AttemptReturns(r, response)
             /\ Completes(analysis[r], response)
             /\ StatedStatus(response.outcome) # "unstated")
            => StatusOf(serverStore', TrackedAs(analysis[r].pc))
                  = StatedStatus(response.outcome)]_vars

\* C25: every invocation that ends writes the status of its capability, and
\* what it writes depends on how it ended and on nothing before: connected
\* for a success; through queryHuggingFace degraded for a 2xx answer that is
\* not JSON or is empty, disconnected for any other status, a timeout or a
\* missing token; through queryDeepSeek disconnected for every failure.  A
\* request of queryDeepSeek that does not end the invocation writes nothing.
C25_StatusFollowsOutcome ==
    [][\A r \in Requests :
         /\ \A response \in Responses(analysis[r].pc) :
               AttemptReturns(r, response) =>
                  IF Completes(analysis[r], response)
                  THEN StatusOf(serverStore', TrackedAs(analysis[r].pc))
                          = WrittenStatus(analysis[r].pc, response.outcome)
                  ELSE serverStore'.connectionStatus = serverStore.connectionStatus
         /\ \A stage \in Stages :
               RejectedAtOnce(r, stage) =>
                  StatusOf(serverStore', TrackedAs(stage)) = "disconnected"]_vars

\* C25 witness: the decision stage is over after two answers that lacked
\* the text, and the table stage ended on an answer that was not JSON
C25_Witness ==
    \E r \in Requests :
        /\ analysis[r].pc = "bart"
        /\ analysis[r].last.stage = "deepseek"
        /\ analysis[r].last.outcome = "malformed"
        /\ StatusOf(serverStore, "flant5") = "disconnected"
        /\ StatusOf(serverStore, "tapas") = "degraded"
        /\ serverStore.connectionStatus["tapas"].errorMessage = ClientError("nonJson")

\* The log after the step is the log before it with one record more, the
\* record of an invocation of the model that ended as said
OneMoreRecord(modelType, success) ==
    LET before == serverStore.predictions
        after == serverStore'.predictions
    IN  /\ Len(after) = Len(before) + 1
        /\ SubSeq(after, 1, Len(before)) = before
        /\ after[Len(after)].modelType = modelType
        /\ after[Len(after)].success = success

\* C26: every invocation of a client, whether it returns a value, throws
\* after a request, or throws before any request for want of a token,
\* appends one record for its capability with the success bit telling how
\* it ended, and a step in which no invocation ends appends none
C26_OneRecordPerInvocation ==
    [][\A r \in Requests :
         /\ \A response \in Responses(analysis[r].pc) :
               AttemptReturns(r, response) =>
                  IF Completes(analysis[r], response)
                  THEN OneMoreRecord(TrackedAs(analysis[r].pc),
                                     response.outcome = "success")
                  ELSE serverStore'.predictions = serverStore.predictions
         /\ \A stage \in Stages :
               RejectedAtOnce(r, stage) => OneMoreRecord(TrackedAs(stage), FALSE)
         /\ (/\ analysis[r].awaiting # "fetch"
             /\ \A stage \in Stages : ~RejectedAtOnce(r, stage)
             /\ analysis'[r] # analysis[r])
               => serverStore'.predictions = serverStore.predictions]_vars

\* C26 witness: a call that made seven requests in six invocations, four of
\* which failed, has left six records, four of them of a failure
C26_Witness ==
    \E r \in Requests :
        /\ Analyzed(r)
        /\ Len(analysis[r].attempts) = 7
        /\ Len(serverStore.predictions) = 6
        /\ Len(SelectSeq(serverStore.predictions, LAMBDA p : ~p.success)) = 4
        /\ \E i \in DOMAIN serverStore.predictions :
              /\ serverStore.predictions[i].modelType = "flant5"
              /\ ~serverStore.predictions[i].success
        /\ serverStore.predictions[6] =
              [id |-> 6, modelType |-> "bart", latency |-> 0, success |-> TRUE]

----------------------------------------------------------------------------
(* Specification: the tracker called directly *)

\* How many calls of the tracker a behaviour makes
MaxRecorded == 3

\* How many predictions and outcomes a used store starts with, when its
\* logs are not yet full
Prefilled == 999

Latencies == {0, 30}

\* Nothing handed to the tracker yet
NoneHanded ==
    [m \in ModelTypes |-> [attempts |-> 0, successes |-> 0, latency |-> 0]]

\* The predictions a process has recorded before: those of tapas, which
\* took 10 each, alternate with those of flant5, which took 20 each, and
\* every third one failed
NthPrediction(i) ==
    [id |-> i,
     modelType |-> IF i % 2 = 0 THEN "tapas" ELSE "flant5",
     latency |-> IF i % 2 = 0 THEN 10 ELSE 20,
     success |-> i % 3 # 0]

\* The outcome reported for the i-th of them: tapas was right, flant5 wrong
NthOutcome(i) == [predictionId |-> i, correct |-> i % 2 = 0]

\* What was handed to the tracker in n such calls
HandedIn(n) ==
    [m \in ModelTypes |->
        LET mine == {i \in 1..n : NthPrediction(i).modelType = m}
        IN  [attempts |-> Cardinality(mine),
             successes |-> Cardinality({i \in mine : NthPrediction(i).success}),
             latency |-> Cardinality(mine) * (IF m = "tapas" THEN 10 ELSE 20)]]

\* The store after recordPrediction was called for the first n of these
\* predictions and then recordOutcome for the first n outcomes
Filled(n) ==
    [EmptyStore EXCEPT
        !.predictions = [i \in 1..n |-> NthPrediction(i)],
        !.outcomes = [i \in 1..n |-> NthOutcome(i)],
        !.metrics =
            [m \in ModelTypes |->
                LET h == HandedIn(n)[m]
                    judged == Cardinality({i \in 1..n :
                                             NthPrediction(i).modelType = m})
                    right == Cardinality({i \in 1..n :
                                            /\ NthPrediction(i).modelType = m
                                            /\ NthOutcome(i).correct})
                IN  IF h.attempts = 0 THEN EmptyStore.metrics[m]
                    ELSE [totalPredictions |-> h.attempts,
                          successRate |-> Frac(h.successes, h.attempts),
                          averageLatency |-> Frac(h.latency, h.attempts),
                          errorRate |-> Frac(h.attempts - h.successes, h.attempts),
                          accuracy |-> Frac(right, judged)]],
        !.issued = n]

\* calc counts the calls made and what recordPrediction was handed for each
\* model since the store was last empty, and names the last call
InitTracker ==
    /\ TradingAtRest
    /\ apiToken = "set"
    /\ clients = {}
    /\ analysis = [r \in Requests |-> NoAnalysis]
    /\ \E n \in {0, Prefilled, MaxPredictions} :
          /\ serverStore = Filled(n)
          /\ calc = [fn |-> "none", arg |-> NULL, calls |-> 0,
                     handed |-> HandedIn(n)]

RecordPrediction(prediction) ==
    /\ calc.calls < MaxRecorded
    /\ serverStore' = recordPrediction(serverStore, prediction)
    /\ calc' = [fn |-> "recordPrediction", arg |-> prediction,
                calls |-> calc.calls + 1,
                handed |-> [calc.handed EXCEPT ![prediction.modelType] =
                    [attempts |-> @.attempts + 1,
                     successes |-> @.successes + (IF prediction.success THEN 1 ELSE 0),
                     latency |-> @.latency + prediction.latency]]]
    /\ UNCHANGED <<manager, tradeVars, apiToken, clients, analysis>>

RecordOutcome(outcome) ==
    /\ calc.calls < MaxRecorded
    /\ serverStore' = recordOutcome(serverStore, outcome)
    /\ calc' = [calc EXCEPT !.fn = "recordOutcome", !.arg = outcome,
                            !.calls = @ + 1]
    /\ UNCHANGED <<manager, tradeVars, apiToken, clients, analysis>>

ClearAllData ==
    /\ calc.calls < MaxRecorded
    /\ serverStore' = clearAllData(serverStore)
    /\ calc' = [fn |-> "clearAllData", arg |-> NULL, calls |-> calc.calls + 1,
                handed |-> NoneHanded]
    /\ UNCHANGED <<manager, tradeVars, apiToken, clients, analysis>>

\* An outcome is reported for the newest prediction, for the oldest one ever
\* made, or for one the tracker never saw
NextTracker ==
    \/ \E modelType \in ModelTypes, latency \in Latencies, success \in BOOLEAN :
          RecordPrediction([modelType |-> modelType, latency |-> latency,
                            success |-> success])
    \/ \E predictionId \in {0, 1, serverStore.issued}, correct \in BOOLEAN :
          RecordOutcome([predictionId |-> predictionId, correct |-> correct])
    \/ ClearAllData

SpecTracker == InitTracker /\ [][NextTracker]_vars

----------------------------------------------------------------------------
(* Properties of the tracker *)

\* The step is a call of the named function of the tracker
Calls(fn) == calc'.calls = calc.calls + 1 /\ calc'.fn = fn

\* The log after the step is the log before it with the entry at its end,
\* less its oldest entry if it was full
Pushed(before, after, entry, max) ==
    after = IF Len(before) = max THEN Append(Tail(before), entry)
            ELSE Append(before, entry)

\* C27: neither log ever holds more than 1,000 entries, and an append puts
\* the entry last, keeps the order of the others and, when the log was
\* full, drops the oldest one and no other
C27_LogsAreCapped ==
    /\ [](/\ Len(serverStore.predictions) <= MaxPredictions
          /\ Len(serverStore.outcomes) <= MaxOutcomes)
    /\ [][/\ Calls("recordPrediction") =>
                /\ Pushed(serverStore.predictions, serverStore'.predictions,
                          [id |-> serverStore'.issued,
                           modelType |-> calc'.arg.modelType,
                           latency |-> calc'.arg.latency,
                           success |-> calc'.arg.success],
                          MaxPredictions)
                /\ serverStore'.outcomes = serverStore.outcomes
          /\ Calls("recordOutcome") =>
                /\ Pushed(serverStore.outcomes, serverStore'.outcomes,
                          calc'.arg, MaxOutcomes)
                /\ serverStore'.predictions = serverStore.predictions]_vars

\* C27 witness: a prediction and an outcome were appended to full logs;
\* both logs are full still, begin with what was their second entry and end
\* with the new one
C27_Witness ==
    /\ calc.fn = "recordOutcome"
    /\ Len(serverStore.predictions) = MaxPredictions
    /\ Len(serverStore.outcomes) = MaxOutcomes
    /\ serverStore.predictions[1] = NthPrediction(2)
    /\ serverStore.predictions[MaxPredictions].id = MaxPredictions + 1
    /\ serverStore.outcomes[1] = NthOutcome(2)
    /\ serverStore.outcomes[MaxOutcomes] = calc.arg

\* 1 - p
OneLess(p) == Frac(p.den - p.num, p.den)

\* The metrics of the model are those of the attempts handed in for it
MetricsOf(metric, h) ==
    /\ metric.totalPredictions = h.attempts
    /\ IF h.attempts = 0
       THEN /\ FracEq(metric.successRate, ZeroQty)
            /\ FracEq(metric.errorRate, ZeroQty)
            /\ FracEq(metric.averageLatency, ZeroQty)
       ELSE /\ FracEq(metric.successRate, Frac(h.successes, h.attempts))
            /\ FracEq(metric.errorRate, OneLess(metric.successRate))
            /\ FracEq(metric.averageLatency, Frac(h.latency, h.attempts))

\* C28: for every model, totalPredictions is the number of attempts
\* recorded for it since the store was last empty and, once there is one,
\* successRate is the successes over that number, errorRate is
\* 1 - successRate and averageLatency the mean of the latencies; recording
\* for one model leaves the metrics of the others as they were, and
\* clearAllData makes the metrics of every model zero
C28_MetricsAreTheAggregates ==
    /\ [](\A m \in ModelTypes :
             MetricsOf(serverStore.metrics[m], calc.handed[m]))
    /\ [][/\ Calls("recordPrediction") =>
                \A m \in ModelTypes \ {calc'.arg.modelType} :
                    serverStore'.metrics[m] = serverStore.metrics[m]
          /\ Calls("clearAllData") =>
                \A m \in ModelTypes :
                    /\ serverStore'.metrics[m].totalPredictions = 0
                    /\ FracEq(serverStore'.metrics[m].successRate, ZeroQty)
                    /\ FracEq(serverStore'.metrics[m].errorRate, ZeroQty)
                    /\ FracEq(serverStore'.metrics[m].averageLatency, ZeroQty)
                    /\ serverStore'.metrics[m].accuracy = NULL]_vars

\* C28 witness: of three attempts two were for tapas, one good after 0 and
\* one bad after 30; its rate is 1/2 and its mean latency 15, and the model
\* never asked has its metrics at zero
C28_Witness ==
    /\ calc.fn = "recordPrediction"
    /\ calc.handed["tapas"] = [attempts |-> 2, successes |-> 1, latency |-> 30]
    /\ calc.handed["bart"].attempts = 1
    /\ serverStore.metrics["tapas"].totalPredictions = 2
    /\ FracEq(serverStore.metrics["tapas"].successRate, Frac(1, 2))
    /\ FracEq(serverStore.metrics["tapas"].errorRate, Frac(1, 2))
    /\ FracEq(serverStore.metrics["tapas"].averageLatency, Frac(15, 1))
    /\ serverStore.metrics["flant5"] = EmptyStore.metrics["flant5"]

----------------------------------------------------------------------------
(* Specification: two analyzeSignals calls at once *)

\* What the endpoints answer here: the table models answer well, with a 503
\* or with an empty answer, the decision endpoints well or with a 503, the
\* other models well
ConcurrentResponses(stage) ==
    {response \in Responses(stage) :
        \/ stage = "tapas" /\ response.outcome \in {"unavailable", "malformed"}
        \/ stage = "deepseek" /\ response.outcome = "unavailable"
        \/ /\ response.outcome = "success"
           /\ response.answer \in {NoText, <<{"75"}>>, <<{"BUY"}, {"SELL"}>>}
           /\ response.score = 0}

ConcurrentSnapshot == [rsi |-> 75, macd |-> 100, signal |-> 50, volume |-> 2000000]
ConcurrentNews == [positive |-> 3, negative |-> 9]

\* Two requests are served by the one process, each by its own call; the
\* calls share serverStore
InitConcurrent ==
    /\ TradingAtRest
    /\ apiToken = "set"
    /\ serverStore = EmptyStore
    /\ clients = Requests
    /\ analysis = [r \in Requests |-> NoAnalysis]
    /\ calc = NoCalc

\* A step is one run of one call from an await to its next
NextConcurrent ==
    \/ \E r \in Requests : Analyze(r, ConcurrentSnapshot, ConcurrentNews, FALSE)
    \/ \E r \in Requests :
          \E response \in ConcurrentResponses(analysis[r].pc) :
              AttemptReturns(r, response)

SpecConcurrent == InitConcurrent /\ [][NextConcurrent]_vars

----------------------------------------------------------------------------
(* Properties of the tracker under two calls at once *)

\* The invocations of the model that the call has seen end, all or those
\* that ended well; with the token set every request of queryHuggingFace is
\* one and queryDeepSeek is invoked once
Ended(a, modelType, wellOnly) ==
    IF modelType = "flant5"
    THEN IF /\ StageOver(a, "deepseek")
            /\ wellOnly => \E i \in DOMAIN a.attempts :
                              /\ a.attempts[i].stage = "deepseek"
                              /\ a.attempts[i].outcome = "success"
         THEN 1 ELSE 0
    ELSE Len(SelectSeq(a.attempts,
                       LAMBDA t : /\ t.stage = modelType
                                  /\ t.outcome # "pending"
                                  /\ wellOnly => t.outcome = "success"))

EndedInAll(modelType, wellOnly) ==
    Ended(analysis["r1"], modelType, wellOnly)
        + Ended(analysis["r2"], modelType, wellOnly)

RecordsOf(modelType, wellOnly) ==
    Len(SelectSeq(serverStore.predictions,
                  LAMBDA p : p.modelType = modelType /\ (wellOnly => p.success)))

\* C29: with two calls under way at once nothing is lost: for every model
\* the log holds one record per invocation that ended in either call,
\* totalPredictions counts them all and the success rate counts those that
\* ended well; and the status of a model is the one written for the
\* invocation that ended last, in whichever call, every other step leaving
\* it as it is
C29_NothingLostLastWriterWins ==
    /\ [](\A m \in ModelTypes :
             /\ RecordsOf(m, FALSE) = EndedInAll(m, FALSE)
             /\ RecordsOf(m, TRUE) = EndedInAll(m, TRUE)
             /\ serverStore.metrics[m].totalPredictions = EndedInAll(m, FALSE)
             /\ Scaled(serverStore.metrics[m].successRate,
                       serverStore.metrics[m].totalPredictions)
                   = EndedInAll(m, TRUE))
    /\ [][\A r \in Requests :
            \A response \in Responses(analysis[r].pc) :
               AttemptReturns(r, response) =>
                  \A m \in ModelTypes :
                     serverStore'.connectionStatus[m] =
                        IF Completes(analysis[r], response)
                           /\ m = TrackedAs(analysis[r].pc)
                        THEN [status |-> WrittenStatus(analysis[r].pc,
                                                       response.outcome),
                              errorMessage |->
                                 IF response.outcome = "success" THEN NoMessage
                                 ELSE IF analysis[r].pc = "deepseek"
                                 THEN DeepSeekError(response.outcome)
                                 ELSE ClientError(response.outcome)]
                        ELSE serverStore.connectionStatus[m]]_vars

\* C29 witness: both calls have returned; one asked the table models three
\* times in vain while the other was answered at once in between, so the
\* log has four table records, the first and the last of a failure, and the
\* status of the table model is that of the last failure
C29_Witness ==
    /\ \A r \in Requests : Analyzed(r)
    /\ Len(StageAttempts(analysis["r1"], "tapas")) = 3
    /\ Len(StageAttempts(analysis["r2"], "tapas")) = 1
    /\ serverStore.metrics["tapas"].totalPredictions = 4
    /\ FracEq(serverStore.metrics["tapas"].successRate, Frac(1, 4))
    /\ LET table == SelectSeq(serverStore.predictions,
                              LAMBDA p : p.modelType = "tapas")
       IN  /\ Len(table) = 4
           /\ ~table[1].success
           /\ table[2].success
           /\ ~table[4].success
    /\ serverStore.connectionStatus["tapas"] =
          [status |-> "degraded", errorMessage |-> ClientError("malformed")]
    /\ serverStore.metrics["flant5"].totalPredictions = 2

----------------------------------------------------------------------------
(* Signal pipeline: fallbackSummarization on a text *)

\* A text is a sequence of pieces, each a run of words and the run of
\* ".", "!" and "?" that ends it; the words of a piece are one blank apart
\* and a piece follows the end of the one before after one blank.  Only the
\* last piece may lack an end, and a piece may have no words.
NoPieces == <<>>

\* String.prototype.toLowerCase on a word
toLowerCase(w) ==
    CASE w = "Bitcoin" -> "bitcoin"
      [] w = "Volume" -> "volume"
      [] w = "The" -> "the"
      [] OTHER -> w

\* String.prototype.length of a lower-case word
length(w) ==
    CASE w \in {"bitcoin", "rallied", "sharply"} -> 7
      [] w \in {"market", "volume"} -> 6
      [] w \in {"fell", "rose", "with"} -> 4
      [] w = "the" -> 3
      [] w \in {"on", "10", "11", "12"} -> 2
      [] OTHER -> 1

stopWords ==
    {"the", "and", "that", "this", "with", "for", "was", "were", "from",
     "have", "has"}

\* text.split(/[.!?]+/).filter((s) => s.trim().length > 0): the pieces that
\* have words, each with the blank it begins with if it is not the first
\* piece of the text
Sentences(text) ==
    SelectSeq([i \in DOMAIN text |-> [words |-> text[i].words, lead |-> i > 1]],
              LAMBDA s : s.words # <<>>)

\* sentence.toLowerCase().split(/\s+/).length: a blank at the start gives an
\* empty first word
WordCount(s) == Len(s.words) + (IF s.lead THEN 1 ELSE 0)

\* The word is counted as a keyword
Counted(w) == length(w) > 3 /\ w \notin stopWords

\* Where the words of the sentences stand
Positions(sentences) ==
    UNION {{<<i, k>> : k \in DOMAIN sentences[i].words} : i \in DOMAIN sentences}

WordAt(sentences, p) == toLowerCase(sentences[p[1]].words[p[2]])

\* The score of sentence i: wordFrequency, the occurrences of a keyword in
\* all the sentences, added up over the keywords of the sentence, over the
\* number of its words
Score(sentences, i) ==
    LET s == sentences[i]
        total == Cardinality(
            {kp \in (DOMAIN s.words) \X Positions(sentences) :
                /\ Counted(toLowerCase(s.words[kp[1]]))
                /\ WordAt(sentences, kp[2]) = toLowerCase(s.words[kp[1]])})
    IN  Frac(total, WordCount(s))

\* p > q
FracGt(p, q) == p.num * q.den > q.num * p.den

\* Where sentence i stands after sentenceScores.sort((a, b) => b.score -
\* a.score), counted from 0; the sort is stable
Rank(sentences, i) ==
    Cardinality({j \in DOMAIN sentences :
                    \/ FracGt(Score(sentences, j), Score(sentences, i))
                    \/ /\ FracEq(Score(sentences, j), Score(sentences, i))
                       /\ j < i})

\* Math.min(3, Math.floor(n / 3))
numSentences_Floor(n) == Min(3, n \div 3)

\* Math.min(3, Math.ceil(n / 3))
numSentences(n) == Min(3, (n + 2) \div 3)

\* The sentence as it stands in a summary: trimmed, with the given end
Trimmed(s, end) == [words |-> s.words, end |-> end]

\* fallbackSummarization(text).  Of the reasoning the lines naming the top
\* keywords and the scores are left out.
Summarize(text) ==
    LET sentences == Sentences(text)
        n == Len(sentences)
        head == <<"Summarization reasoning:">>
        top == {i \in DOMAIN sentences : Rank(sentences, i) < numSentences(n)}
        topSentences == SelectSeq([i \in DOMAIN sentences |-> i],
                                  LAMBDA i : i \in top)
    IN  IF n = 0
        THEN [summary |-> <<[words |-> <<"No", "content", "to", "summarize">>,
                             end |-> "."]>>,
              reasoning |-> <<head, <<"- No content to summarize">>>>]
        ELSE IF n = 1
        THEN [summary |-> <<Trimmed(sentences[1], "")>>,
              reasoning |->
                <<head, <<"- Text contains only one sentence, returning as is">>>>]
        ELSE IF n > 2
        THEN [summary |-> [k \in DOMAIN topSentences |->
                              Trimmed(sentences[topSentences[k]], ".")],
              reasoning |->
                <<head,
                  <<"- Text contains sentences, using frequency-based extraction", n>>,
                  <<"- Selected top sentences by relevance score", numSentences(n)>>,
                  <<"- Arranged selected sentences in original order for coherence">>>>]
        ELSE [summary |-> <<Trimmed(sentences[1], "."),
                            Trimmed(sentences[Len(sentences)], ".")>>,
              reasoning |->
                <<head,
                  <<"- Text is short, using first and last sentence extraction">>>>]

----------------------------------------------------------------------------
(* Specification: fallbackSummarization on texts of up to ten sentences *)

MaxSentences == 10

Pool ==
    <<<<"Bitcoin", "rallied", "sharply">>,
      <<"The", "market", "fell">>,
      <<"Volume", "rose", "with", "bitcoin">>,
      <<"on", "the", "market">>>>

Numerals == <<"1", "2", "3", "4", "5", "6", "7", "8", "9", "10", "11", "12">>

Ends == {".", "!", "?!"}

\* A piece without words, as in "A. ... B"
BlankPiece == [words |-> <<>>, end |-> "..."]

\* n numbered sentences taken from the pool in turn, each ended by end, the
\* last one only if the text is closed, and a piece without words after the
\* first of them if blank
SummarizedText(n, shift, end, closed, blank) ==
    LET pieces == [i \in 1..n |->
                     [words |-> Pool[((i + shift) % Len(Pool)) + 1]
                                   \o <<Numerals[i]>>,
                      end |-> IF i = n /\ ~closed THEN "" ELSE end]]
    IN  IF ~blank THEN pieces
        ELSE IF n = 0 THEN <<BlankPiece>>
        ELSE <<pieces[1]>> \o <<BlankPiece>> \o SubSeq(pieces, 2, n)

SummarizedTexts ==
    {SummarizedText(n, shift, end, closed, blank) :
        n \in 0..MaxSentences, shift \in 0..(Len(Pool) - 1), end \in Ends,
        closed \in BOOLEAN, blank \in BOOLEAN}

InitSummary ==
    /\ TradingAtRest
    /\ apiToken = "set"
    /\ serverStore = EmptyStore
    /\ clients = {}
    /\ analysis = [r \in Requests |-> NoAnalysis]
    /\ calc \in [fn : {"pending"}, text : SummarizedTexts, value : {NULL}]

Summarizes ==
    /\ calc.fn = "pending"
    /\ calc' = [calc EXCEPT !.fn = "fallbackSummarization",
                            !.value = Summarize(calc.text)]
    /\ UNCHANGED <<manager, tradeVars, apiToken, serverStore, clients, analysis>>

NextSummary == Summarizes

SpecSummary == InitSummary /\ [][NextSummary]_vars

----------------------------------------------------------------------------
(* Properties of fallbackSummarization *)

Summarized == calc.fn = "fallbackSummarization"

\* The pieces of the text that have words, with their ends
Worded(text) == SelectSeq(text, LAMBDA piece : piece.words # <<>>)

\* The summary is made of sentences of the text, in the order of the text
InOriginalOrder(summary, text) ==
    \E chosen \in SUBSET DOMAIN Worded(text) :
        LET inOrder == SelectSeq([i \in DOMAIN Worded(text) |-> i],
                                 LAMBDA i : i \in chosen)
        IN  /\ Len(inOrder) = Len(summary)
            /\ \A k \in DOMAIN summary :
                  summary[k].words = Worded(text)[inOrder[k]].words

NoContent ==
    [summary |-> <<[words |-> <<"No", "content", "to", "summarize">>, end |-> "."]>>,
     reasoning |-> <<<<"Summarization reasoning:">>, <<"- No content to summarize">>>>]

\* C30 as stated: of n >= 2 sentences min(3, ceil(n/3)) are returned, in
\* their order; of a text of one sentence the sentence is returned, word
\* for word; a text without a sentence gives the fixed message and the
\* reasoning that says so
C30_SummaryAsStated ==
    Summarized =>
        LET n == Len(Worded(calc.text))
        IN  /\ n >= 2 =>
                /\ Len(calc.value.summary) = Min(3, (n + 2) \div 3)
                /\ InOriginalOrder(calc.value.summary, calc.text)
            /\ n = 1 =>
                /\ Len(calc.value.summary) = 1
                /\ calc.value.summary[1].words = Worded(calc.text)[1].words
            /\ n = 0 => calc.value = NoContent

\* C30: of n >= 3 sentences min(3, ceil(n/3)) are returned, in their order
\* and each ended by a full stop; of two sentences both are returned, each
\* ended by a full stop; a single sentence is returned trimmed and without
\* what ended it; a text without a sentence gives the fixed message and the
\* reasoning that says so
C30_SummaryOfTheSentences ==
    Summarized =>
        LET n == Len(Worded(calc.text))
            summary == calc.value.summary
        IN  /\ n >= 3 =>
                /\ Len(summary) = Min(3, (n + 2) \div 3)
                /\ InOriginalOrder(summary, calc.text)
                /\ \A k \in DOMAIN summary : summary[k].end = "."
            /\ n = 2 =>
                summary = [k \in 1..2 |->
                              [words |-> Worded(calc.text)[k].words, end |-> "."]]
            /\ n = 1 =>
                summary = <<[words |-> Worded(calc.text)[1].words, end |-> ""]>>
            /\ n = 0 => calc.value = NoContent

\* C30 witness: of ten sentences, the first followed by a run of full stops
\* and the last left open, the second, the sixth and the tenth are returned
C30_Witness ==
    /\ Summarized
    /\ Len(calc.text) = MaxSentences + 1
    /\ Len(Worded(calc.text)) = MaxSentences
    /\ calc.text[1].end = "?!"
    /\ calc.text[Len(calc.text)].end = ""
    /\ calc.value.summary =
          [k \in 1..3 |->
              [words |-> Worded(calc.text)[4 * k - 2].words, end |-> "."]]
    /\ calc.value.summary[1].words = <<"Bitcoin", "rallied", "sharply", "2">>

----------------------------------------------------------------------------
(* Protective legs and the entry order's fill *)

\* The entry order's result, while the legs are being placed and afterwards
EntryResult(c) == IF Returned(c) THEN result[c] ELSE local[c].entry

\* C31: the protective legs are priced from the entry order's fill price: for
\* a BUY entry the stop-loss triggers at fill * (1 - stopLossPercent/100) and
\* the take-profit at fill * (1 + takeProfitPercent/100), both SELL with a
\* limit price 1% below the trigger; for a SELL entry the stop is above and the
\* take-profit below, both BUY with a limit price 1% above the trigger; both
\* legs are for the entry's executed quantity.  Prices in 1/10000 USDT.
C31_LegsPricedFromFill ==
    \A c \in Callers :
        \A i \in Indexes(c) :
            log[c][i].api \in Legs =>
                LET fill == EntryResult(c).order.executedPrice
                    long == call[c].action = "BUY"
                    pct == IF log[c][i].api = "placeStopLossOrder"
                           THEN config.riskParameters.stopLossPercent
                           ELSE config.riskParameters.takeProfitPercent
                    away == (log[c][i].api = "placeStopLossOrder") = long
                    trigger == IF away THEN fill * (100 - pct) * 100
                               ELSE fill * (100 + pct) * 100
                IN /\ log[c][i].stopPrice = trigger
                   /\ log[c][i].side = (IF long THEN "SELL" ELSE "BUY")
                   /\ log[c][i].price * 100
                         = trigger * (IF long THEN 99 ELSE 101)
                   /\ FracEq(log[c][i].quantity,
                             EntryResult(c).order.executedQty)

----------------------------------------------------------------------------
(* The closing order ahead of the entry *)

\* C39: in derivatives mode with hedge mode off, when the reduce-only closing
\* order fails the entry order is not placed and executeTrade returns
\* success = false.
C39_FailedCloseStopsEntry ==
    \A c \in Callers :
        \A j \in Indexes(c) :
            (/\ tradingMode = "futures"
             /\ ~HedgeMode(config)
             /\ IsClose(log[c][j])
             /\ log[c][j].ok = "fail") =>
                /\ \A i \in Indexes(c) : ~IsEntry(log[c][i])
                /\ Returned(c) => Rejected(c)

----------------------------------------------------------------------------
(* Leverage and the policy's ceiling *)

\* C38: no operation sets a symbol's leverage on the exchange, or sizes a
\* position with a leverage, above riskParameters.maxLeverage: every
\* changeLeverage request carries a leverage within the ceiling, and the
\* notional of a derivatives position is at most maxPositionSize * confidence
\* * maxLeverage (mills).
C38_LeverageWithinCeiling ==
    \A c \in Callers :
        /\ \A i \in Indexes(c) :
              log[c][i].api = "changeLeverage" =>
                  log[c][i].leverage <= config.riskParameters.maxLeverage
        /\ tradingMode = "futures" =>
              local[c].positionSize
                 <= config.riskParameters.maxPositionSize * call[c].confidence
                       * config.riskParameters.maxLeverage

----------------------------------------------------------------------------
(* TradingManager: the singleton in front of the two services *)

Modes == {"spot", "futures"}

\* Methods of the manager called in one behaviour
MaxCalls == 4

\* ApiCredentials handed to initialize(); NULL is none
Credentials == {"key1", "key2"}

DEFAULT_RISK_PARAMETERS ==
    [maxPositionSize |-> 100, maxLeverage |-> 1, stopLossPercent |-> 2,
     takeProfitPercent |-> 4, maxDailyLoss |-> 200, maxDrawdownPercent |-> 10,
     maxOpenPositions |-> 0]

\* The policy a new manager holds.  futuresSpecific is not part of it.
DEFAULT_TRADING_CONFIG ==
    [enabled |-> FALSE, testMode |-> TRUE, tradingMode |-> "spot",
     riskParameters |-> DEFAULT_RISK_PARAMETERS,
     allowedSymbols |-> {"BTCUSDT", "ETHUSDT", "BNBUSDT", "ADAUSDT", "DOGEUSDT"},
     futuresConfig |-> [hedgeMode |-> FALSE, marginType |-> "ISOLATED",
                        defaultLeverage |-> 3],
     futuresSpecific |-> NoFuturesSpecific]

\* { ...cfg, ...partial }
Merge(cfg, partial) ==
    [k \in DOMAIN cfg \cup DOMAIN partial |->
        IF k \in DOMAIN partial THEN partial[k] ELSE cfg[k]]

\* A service the manager has not constructed, and the one it constructs: the
\* service keeps the manager's policy object itself (shares) until one of the
\* two replaces its object
NoService ==
    [made |-> FALSE, shares |-> FALSE, config |-> NULL, credentials |-> NULL,
     initialBalance |-> 0, dailyPnL |-> 0]

NewService(credentials, cfg) ==
    [made |-> TRUE, shares |-> TRUE, config |-> cfg, credentials |-> credentials,
     initialBalance |-> 0, dailyPnL |-> 0]

\* The manager's asynchronous method in flight: its name, the mode whose
\* service it initializes and the mode the manager was in when it was called
NoOp == [name |-> NULL, mode |-> NULL, from |-> NULL]

\* What the last initialize() or switchTradingMode() returned
NoReturn == [name |-> NULL, value |-> FALSE]

\* The service and credentials a caller's trade was handed to
NoVia == [mode |-> NULL, credentials |-> NULL]

\* getInstance(): the fields of a new TradingManager; calls counts the
\* methods called so far and http is the status of the response each caller
\* of the execute route received
NewManager ==
    [config |-> DEFAULT_TRADING_CONFIG, credentials |-> NULL,
     initialized |-> FALSE,
     services |-> [m \in Modes |-> NoService],
     op |-> NoOp, last |-> NoReturn, calls |-> 0,
     via |-> [c \in Callers |-> NoVia],
     http |-> [c \in Callers |-> 0]]

\* getActiveTradingService()
getActiveTradingService(m) == m.services[m.config.tradingMode]

\* No caller has sent its trade yet.  The model runs the manager's methods
\* one after the other and ahead of the trades, so that no executeTrade and
\* no checkRiskParameters is between two awaits when the policy, the mode or
\* a baseline changes.
Quiet == \A c \in Callers : pc[c] = "idle" /\ risk[c].pc = "none"

\* The variables of the service hold the fields of the service the manager
\* dispatches to
Sees(m) ==
    LET svc == getActiveTradingService(m)
    IN /\ tradingMode' = m.config.tradingMode
       /\ config' = (IF svc.made THEN svc.config ELSE m.config)
       /\ initialized' = (svc.made /\ m.initialized)
       /\ initialBalance' = svc.initialBalance
       /\ dailyPnL' = svc.dailyPnL

\* initializeCurrentMode(), up to the await of the service's initialize():
\* without credentials it returns false at once; a service that exists is not
\* constructed again
initializeCurrentMode(m, name, from) ==
    LET mode == m.config.tradingMode
    IN IF m.credentials = NULL
       THEN [m EXCEPT !.last = [name |-> name, value |-> FALSE],
                      !.initialized = IF name = "initialize" THEN FALSE ELSE @]
       ELSE [m EXCEPT
               !.services[mode] =
                   IF @.made THEN @ ELSE NewService(m.credentials, m.config),
               !.op = [name |-> name, mode |-> mode, from |-> from]]

\* The policy object of the manager is replaced: no service shares it any more
Unshared(services) == [s \in Modes |-> [services[s] EXCEPT !.shares = FALSE]]

\* `this.config.tradingMode = mode`: the assignment is to the object itself,
\* and reaches the services that hold the same object
Assigned(services, mode) ==
    [s \in Modes |->
        IF services[s].made /\ services[s].shares
        THEN [services[s] EXCEPT !.config.tradingMode = mode]
        ELSE services[s]]

\* TradingManager.initialize(credentials, config), up to its await; given
\* tells whether a config was passed
ManagerInitialize(credentials, given, partial) ==
    /\ Quiet
    /\ manager.op = NoOp
    /\ manager.calls < MaxCalls
    /\ LET m == [manager EXCEPT
                   !.calls = @ + 1,
                   !.credentials = credentials,
                   !.config = IF given THEN Merge(@, partial) ELSE @,
                   !.services = IF given THEN Unshared(@) ELSE @]
       IN /\ manager' = initializeCurrentMode(m, "initialize",
                                              manager.config.tradingMode)
          /\ Sees(manager')
    /\ UNCHANGED <<exVars, active, pc, call, local, risk, result, log>>

\* TradingManager.updateConfig(config): the manager's policy is replaced and
\* handed to the service of the current mode alone
ManagerUpdateConfig(partial) ==
    /\ Quiet
    /\ manager.op = NoOp
    /\ manager.calls < MaxCalls
    /\ LET cfg == Merge(manager.config, partial)
           mode == cfg.tradingMode
       IN /\ manager' = [manager EXCEPT
                !.calls = @ + 1,
                !.config = cfg,
                !.services = [Unshared(@) EXCEPT
                    ![mode] = IF @.made
                              THEN [@ EXCEPT !.config = Merge(@, cfg)]
                              ELSE @]]
          /\ Sees(manager')
    /\ UNCHANGED <<exVars, active, pc, call, local, risk, result, log>>

\* TradingManager.switchTradingMode(mode), up to its await
switchTradingMode(m, mode) ==
    IF m.config.tradingMode = mode
    THEN [m EXCEPT !.last = [name |-> "switchTradingMode", value |-> TRUE]]
    ELSE initializeCurrentMode(
             [m EXCEPT !.config.tradingMode = mode,
                       !.services = Assigned(@, mode)],
             "switchTradingMode", m.config.tradingMode)

\* POST /api/trading/mode: a mode that is neither spot nor futures, or a
\* manager that is not initialized, is answered 400 and nothing else happens
PostMode(mode) ==
    /\ Quiet
    /\ manager.op = NoOp
    /\ manager.calls < MaxCalls
    /\ manager' =
          IF mode \notin Modes \/ ~manager.initialized
          THEN [manager EXCEPT !.calls = @ + 1]
          ELSE switchTradingMode([manager EXCEPT !.calls = @ + 1], mode)
    /\ Sees(manager')
    /\ UNCHANGED <<exVars, active, pc, call, local, risk, result, log>>

\* The service's initialize() returns to the manager's method that awaits it.
\* The exchange is unreachable (false, nothing kept), or it answers and the
\* service takes the account's USDT total as its baseline; a futures service
\* in hedge mode then switches the account's position mode, which may fail
\* after the baseline was taken.
InitializeReturns ==
    /\ manager.op # NoOp
    /\ LET op == manager.op
           svc == manager.services[op.mode]
       IN \E outcome \in {"unreachable", "ok"}
                 \cup (IF op.mode = "futures" /\ HedgeMode(svc.config)
                       THEN {"late"} ELSE {}) :
             /\ manager' = [manager EXCEPT
                   !.services[op.mode].initialBalance =
                       IF outcome # "unreachable" /\ exBalance.present
                       THEN exBalance.total ELSE @,
                   !.initialized =
                       IF op.name = "initialize" THEN outcome = "ok" ELSE @,
                   !.op = NoOp,
                   !.last = [name |-> op.name, value |-> outcome = "ok"]]
             /\ Sees(manager')
    /\ UNCHANGED <<exVars, active, pc, call, local, risk, result, log>>

NotInitializedMessage == <<"Trading service not initialized">>
RequiredMessage == <<"Symbol and action are required">>
ActionMessage == <<"Action must be BUY, SELL, or HOLD">>

\* `confidence || 0.5`, in thousandths; the body carries <<>> for no
\* confidence at all
Forwarded(body) ==
    IF body.confidence = <<>> \/ body.confidence[1] = 0 THEN 500
    ELSE body.confidence[1]

\* What the execute route refuses before it reaches the manager's
\* executeTrade; NoMessage when it forwards the request
RouteError(m, body) ==
    IF body.symbol = NULL \/ body.action = NULL THEN RequiredMessage
    ELSE IF body.action \notin {"BUY", "SELL", "HOLD"} THEN ActionMessage
    ELSE IF ~m.initialized THEN NotInitializedMessage
    ELSE NoMessage

\* The call ends before the service is reached
Refused(c, body, msg, status) ==
    /\ call' = [call EXCEPT ![c] = [symbol |-> body.symbol,
                                    action |-> body.action,
                                    confidence |-> Forwarded(body)]]
    /\ Return(c, Failure(msg))
    /\ log' = [log EXCEPT ![c] = <<>>]
    /\ risk' = [risk EXCEPT ![c] = NoRisk]
    /\ manager' = [manager EXCEPT !.http[c] = status]
    /\ UNCHANGED <<tradingMode, config, initialized, svcVars, exVars, active>>

\* POST /api/trading/execute and TradingManager.executeTrade, up to the first
\* await of the service's executeTrade
PostExecute(c, body, now) ==
    /\ c \in active
    /\ pc[c] = "idle"
    /\ Quiet
    /\ manager.op = NoOp
    /\ LET svc == getActiveTradingService(manager)
       IN IF RouteError(manager, body) # NoMessage
          THEN Refused(c, body, RouteError(manager, body), 400)
          ELSE IF ~svc.made \/ ~manager.initialized
          THEN Refused(c, body, NotInitializedMessage, 200)
          ELSE /\ Start(c, body.symbol, body.action, Forwarded(body), now)
               /\ manager' = [manager EXCEPT
                     !.http[c] = 200,
                     !.via[c] = [mode |-> manager.config.tradingMode,
                                 credentials |-> svc.credentials]]

----------------------------------------------------------------------------
(* Specification: the manager's methods, then one trade through the execute
   route *)

\* The policy handed to initialize(): live trading, a position ceiling below
\* the account's balance, and the futures section as the settings page
\* writes it
LivePolicy ==
    [enabled |-> TRUE, testMode |-> FALSE,
     riskParameters |-> [DEFAULT_RISK_PARAMETERS EXCEPT
                            !.maxPositionSize = 33, !.maxOpenPositions = 2],
     futuresSpecific |-> [present |-> TRUE, hedgeMode |-> FALSE,
                          marginType |-> "ISOLATED", defaultLeverage |-> 3]]

UpdatePartials ==
    {[enabled |-> FALSE], [enabled |-> TRUE], [tradingMode |-> "futures"]}

ModeBodies == {"spot", "futures", "margin"}

ExecuteBodies ==
    {[symbol |-> "BTCUSDT", action |-> "BUY", confidence |-> k] :
        k \in {<<>>, <<0>>, <<2000>>}}
    \cup {[symbol |-> NULL, action |-> "BUY", confidence |-> <<>>],
          [symbol |-> "BTCUSDT", action |-> "CLOSE", confidence |-> <<>>]}

ManagerAccounts == {USDT(100, 100), USDT(90, 60)}

InitManager ==
    /\ manager = NewManager
    /\ tradingMode = "spot"
    /\ config = DEFAULT_TRADING_CONFIG
    /\ initialized = FALSE
    /\ initialBalance = 0
    /\ dailyPnL = 0
    /\ exBalance = USDT(100, 100)
    /\ exPositions = <<RawPosition("BTCUSDT", "SHORT", -2)>>
    /\ realizedPnL = 0
    /\ pc = [c \in Callers |-> "idle"]
    /\ call = [c \in Callers |-> NoCall]
    /\ local = [c \in Callers |-> NoLocal]
    /\ risk = [c \in Callers |-> NoRisk]
    /\ result = [c \in Callers |-> NoResult]
    /\ log = [c \in Callers |-> <<>>]
    /\ active = {"a"}
    /\ PipelineAtRest

\* A step of the dispatched trade.  This specification follows the trade on
\* an exchange that takes every request; refused requests are the subject of
\* the specifications of the service.
Answered(step) == step /\ Healthy' /\ UNCHANGED <<pipeVars, manager>>

NextManager ==
    \/ \E credentials \in Credentials, given \in BOOLEAN :
          ManagerInitialize(credentials, given, LivePolicy)
          /\ UNCHANGED pipeVars
    \/ \E partial \in UpdatePartials :
          ManagerUpdateConfig(partial) /\ UNCHANGED pipeVars
    \/ \E mode \in ModeBodies : PostMode(mode) /\ UNCHANGED pipeVars
    \/ InitializeReturns /\ UNCHANGED pipeVars
    \/ \E s \in ManagerAccounts :
          /\ manager.op = NoOp
          /\ AccountChanges(s)
          /\ UNCHANGED <<pipeVars, manager>>
    \/ \E c \in Callers, body \in ExecuteBodies, now \in Times :
          PostExecute(c, body, now) /\ UNCHANGED pipeVars
    \/ \E c \in Callers : Answered(RiskGetBalancesReturns(c))
    \/ \E c \in Callers : Answered(RiskGetPositionsReturns(c))
    \/ \E c \in Callers : Answered(GetBalancesReturns(c))
    \/ \E c \in Callers : Answered(GetCurrentPriceReturns(c))
    \/ \E c \in Callers : Answered(GetPositionInfoReturns(c))
    \/ \E c \in Callers : Answered(ChangeMarginTypeReturns(c))
    \/ \E c \in Callers : Answered(ChangeLeverageReturns(c))
    \/ \E c \in Callers : Answered(CloseOrderReturns(c))
    \/ \E c \in Callers : Answered(EntryOrderReturns(c))
    \/ \E c \in Callers : Answered(StopLossReturns(c))
    \/ \E c \in Callers : Answered(TakeProfitReturns(c))

SpecManager == InitManager /\ [][NextManager]_vars

----------------------------------------------------------------------------
(* Properties of the manager *)

\* The call of caller c asked for an order of the exchange
AskedForOrder(c) == \E i \in Indexes(c) : IsOrder(log[c][i])

\* C34: while the manager's policy says enabled = false, as it does from an
\* updateConfig with enabled = false until the policy is enabled again, every
\* trade sent through the manager is rejected and asks the exchange for no
\* order, whatever initialize and switchTradingMode calls came in between: the
\* service that executes always uses the manager's current policy.
C34_DisabledPolicyRejects ==
    \A c \in Callers :
        (pc[c] # "idle" /\ ~manager.config.enabled) =>
            /\ ~AskedForOrder(c)
            /\ Returned(c) => Rejected(c)

\* C35: when switchTradingMode returns false the manager's trading mode, and
\* with it the service trades are dispatched to, is what it was before the
\* call.
C35_FailedSwitchKeepsMode ==
    [][(/\ manager.op.name = "switchTradingMode"
        /\ manager'.op = NoOp
        /\ ~manager'.last.value)
          => manager'.config.tradingMode = manager.op.from]_vars

\* C36: once a service has taken its drawdown baseline, nothing changes it:
\* no mode switch, no further initialization, no policy update, no trade.
C36_BaselineSetOnce ==
    [][\A m \in Modes :
          manager.services[m].initialBalance # 0 =>
              manager'.services[m].initialBalance
                 = manager.services[m].initialBalance]_vars

\* C37: whatever confidence the execute route accepts and forwards, the
\* notional of the entry order (quantity times the price it was sized at) is
\* at most maxPositionSize in spot mode and maxPositionSize * leverage in
\* derivatives mode.
C37_NotionalWithinCeiling ==
    \A c \in Callers :
        \A i, j \in Indexes(c) :
            (IsEntry(log[c][i]) /\ log[c][j].api = "getCurrentPrice") =>
                log[c][i].quantity.num * log[c][j].answer
                   <= config.riskParameters.maxPositionSize
                         * (IF tradingMode = "futures" THEN Leverage(config)
                            ELSE 1)
                         * log[c][i].quantity.den

\* The request named a symbol and one of the three actions
WellFormed(c) ==
    call[c].symbol # NULL /\ call[c].action \in {"BUY", "SELL", "HOLD"}

\* C40, first half: while the manager is not initialized a trade is answered
\* success = false, "Trading service not initialized", and the exchange is
\* not called.
C40_UninitializedRejects ==
    \A c \in Callers :
        (pc[c] # "idle" /\ WellFormed(c) /\ ~manager.initialized) =>
            /\ Returned(c) /\ Rejected(c)
            /\ result[c].errorMessage = NotInitializedMessage
            /\ NoExchangeCall(c)

\* C40: while the manager has never been initialized, or its latest
\* initialize failed, every trade is refused as not initialized without a
\* call of the exchange; and a trade that is dispatched goes out with the
\* credentials of the latest initialize.
C40_InitializeGoverns ==
    /\ C40_UninitializedRejects
    /\ \A c \in Callers :
          manager.via[c] # NoVia =>
              manager.via[c].credentials = manager.credentials

----------------------------------------------------------------------------
(* The signal pipeline when every request that went out comes back *)

\* The calls start from the empty store and analyse one snapshot: neither
\* decides which endpoint is asked next
InitReturning == InitPipeline /\ serverStore = EmptyStore

ReturningSnapshot == [rsi |-> 75, macd |-> 100, signal |-> 50, volume |-> 2000000]

NextReturning ==
    \/ \E r \in Requests, newsData \in PipelineNews, useFallback \in BOOLEAN :
          Analyze(r, ReturningSnapshot, newsData, useFallback)
    \/ \E r \in Requests :
          \E response \in Responses(analysis[r].pc) : AttemptReturns(r, response)
    \/ \E r \in Requests : Resumes(r)

\* Every fetch carries an AbortSignal.timeout, so a request in flight comes
\* back, with a response or with the abort; the continuation of a settled
\* promise is run by the event loop.  Nothing makes a caller call
\* analyzeSignals, so Analyze carries no fairness.
SpecPipelineFair ==
    /\ InitReturning
    /\ [][NextReturning]_vars
    /\ \A r \in Requests :
          /\ WF_vars(\E response \in Responses(analysis[r].pc) :
                        AttemptReturns(r, response))
          /\ WF_vars(Resumes(r))

\* The attempts of every stage of every call follow the stage's cascade:
\* no more attempts than the cascade has endpoints, which is three for the
\* table stage, the i-th attempt at the i-th endpoint, no endpoint twice
WithinCascade ==
    \A r \in Requests, stage \in Stages :
        LET t == StageAttempts(analysis[r], stage)
        IN  /\ Len(t) <= Len(Cascade(stage))
            /\ stage = "tapas" => Len(t) <= 3
            /\ \A i \in DOMAIN t : t[i].endpoint = Cascade(stage)[i]
            /\ \A i, j \in DOMAIN t :
                  t[i].endpoint = t[j].endpoint => i = j

\* C32: one analyzeSignals call makes at most three remote attempts for the
\* table stage and stays within the cascade of the sentiment, decision and
\* summary stages, asks no endpoint twice and so never retries; and when
\* every request that went out completes or times out, a call that was
\* started returns
C32_BoundedCascadeTerminates ==
    /\ []WithinCascade
    /\ \A r \in Requests : (analysis[r].pc # "idle") ~> Finished(r)

\* C32 witness: a call that returned after every endpoint of every stage
\* failed: three attempts for the table stage, one for the sentiment stage,
\* two for the decision stage, one for the summary stage
C32_Witness ==
    \E r \in Requests :
        /\ Finished(r)
        /\ ~analysis[r].useFallback
        /\ \A stage \in Stages :
              /\ Len(StageAttempts(analysis[r], stage)) = Len(Cascade(stage))
              /\ EveryAttemptFailed(analysis[r], stage)
        /\ Len(analysis[r].attempts) = 7

----------------------------------------------------------------------------
(* fallbackTableAnalysis on any query and table *)

\* Queries, column names and cells are strings the function looks into, so
\* they are sequences of characters here.  The cells hold no decimal point
\* and no exponent: every number is an integer.
DigitChars == <<"0", "1", "2", "3", "4", "5", "6", "7", "8", "9">>

IsDigit(c) == \E i \in DOMAIN DigitChars : DigitChars[i] = c

DigitValue(c) == (CHOOSE i \in DOMAIN DigitChars : DigitChars[i] = c) - 1

UpperChars ==
    <<"A", "B", "C", "D", "E", "F", "G", "H", "I", "J", "K", "L", "M">>
        \o <<"N", "O", "P", "Q", "R", "S", "T", "U", "V", "W", "X", "Y", "Z">>

LowerChars ==
    <<"a", "b", "c", "d", "e", "f", "g", "h", "i", "j", "k", "l", "m">>
        \o <<"n", "o", "p", "q", "r", "s", "t", "u", "v", "w", "x", "y", "z">>

\* String.prototype.toLowerCase
LowerCase(s) ==
    [i \in DOMAIN s |->
        IF \E k \in DOMAIN UpperChars : UpperChars[k] = s[i]
        THEN LowerChars[CHOOSE k \in DOMAIN UpperChars : UpperChars[k] = s[i]]
        ELSE s[i]]

\* String.prototype.includes: sub occurs in s at some offset; the empty
\* string occurs in every string
Contains(s, sub) ==
    \E i \in 0..(Len(s) - Len(sub)) : SubSeq(s, i + 1, i + Len(sub)) = sub

\* A number is <<n>>, NaN is the empty tuple
NaN == <<>>

RECURSIVE DigitsPrefix(_)
DigitsPrefix(s) ==
    IF s # <<>> /\ IsDigit(Head(s))
    THEN <<Head(s)>> \o DigitsPrefix(Tail(s))
    ELSE <<>>

RECURSIVE DecimalValue(_)
DecimalValue(digits) ==
    IF digits = <<>> THEN 0
    ELSE 10 * DecimalValue(SubSeq(digits, 1, Len(digits) - 1))
            + DigitValue(digits[Len(digits)])

RECURSIVE SkipSpaces(_)
SkipSpaces(s) ==
    IF s # <<>> /\ Head(s) = " " THEN SkipSpaces(Tail(s)) ELSE s

\* Number.parseFloat: leading blanks are skipped, a sign is taken, and the
\* longest run of digits that follows is the number; what comes after it is
\* ignored, and without a digit there the result is NaN
parseFloat(s) ==
    LET t == SkipSpaces(s)
        negative == t # <<>> /\ Head(t) = "-"
        signed == t # <<>> /\ Head(t) \in {"-", "+"}
        digits == DigitsPrefix(IF signed THEN Tail(t) ELSE t)
    IN  IF digits = <<>> THEN NaN
        ELSE <<(IF negative THEN -1 ELSE 1) * DecimalValue(digits)>>

\* value.replace(/[^0-9.-]+/g, ""): the digits, the points and the minus
\* signs stay
Stripped(value) ==
    SelectSeq(value, LAMBDA c : IsDigit(c) \/ c \in {".", "-"})

\* Number(s) for a string of digits, points and minus signs: the empty string
\* is 0, an optional minus sign and digits is that number, all else is NaN
NumberOf(s) ==
    LET digits == IF s # <<>> /\ Head(s) = "-" THEN Tail(s) ELSE s
    IN  IF s = <<>> THEN <<0>>
        ELSE IF digits # <<>> /\ DigitsPrefix(digits) = digits
        THEN <<(IF Head(s) = "-" THEN -1 ELSE 1) * DecimalValue(digits)>>
        ELSE NaN

\* isNumeric of fallbackTableAnalysis
isNumeric(value) ==
    parseFloat(value) # NaN /\ NumberOf(Stripped(value)) # NaN

\* toNumber of fallbackTableAnalysis
toNumber(value) == parseFloat(Stripped(value))

\* x > y and x < y of two numbers: false when either is NaN
Greater(x, y) == x # NaN /\ y # NaN /\ x[1] > y[1]
Less(x, y) == Greater(y, x)

\* The texts of the answers
HoldText == <<"H", "O", "L", "D">>
BuyText == <<"B", "U", "Y">>
SellText == <<"S", "E", "L", "L">>

RECURSIVE DigitsOf(_)
DigitsOf(n) ==
    IF n < 10 THEN <<DigitChars[n + 1]>>
    ELSE DigitsOf(n \div 10) \o <<DigitChars[(n % 10) + 1]>>

\* (sum / count).toFixed(2): with at most three cells the quotient is never
\* half way between two hundredths
toFixed2(sum, count) ==
    LET size == IF sum < 0 THEN -sum ELSE sum
        hundredths == (200 * size + count) \div (2 * count)
    IN  (IF sum < 0 /\ hundredths > 0 THEN <<"-">> ELSE <<>>)
            \o DigitsOf(hundredths \div 100)
            \o <<".">>
            \o <<DigitChars[((hundredths \div 10) % 10) + 1],
                 DigitChars[(hundredths % 10) + 1]>>

\* What the function says of how it found the answer: the kind of the
\* query, the column it read (0: none) and the row of the answer (0: none)
TableReasoning(intent, column, row) ==
    [source |-> "local", intent |-> intent, column |-> column, row |-> row]

\* The first column whose name occurs in the query, else the first column
\* with a numeric cell, else 0
TargetColumn(lowerQuery, table) ==
    LET mentioned == {i \in DOMAIN table :
                         Contains(lowerQuery, LowerCase(table[i].name))}
        numeric == {i \in DOMAIN table :
                       \E k \in DOMAIN table[i].values :
                           isNumeric(table[i].values[k])}
    IN  IF mentioned # {} THEN CHOOSE i \in mentioned : \A j \in mentioned : i <= j
        ELSE IF numeric # {} THEN CHOOSE i \in numeric : \A j \in numeric : i <= j
        ELSE 0

\* The scan for the maximum with a later row winning a tie
RECURSIVE ScanMax_LastWins(_, _, _)
ScanMax_LastWins(values, i, best) ==
    IF i > Len(values) THEN best
    ELSE IF /\ isNumeric(values[i])
            /\ (best = 0 \/ ~Less(toNumber(values[i]), toNumber(values[best])))
    THEN ScanMax_LastWins(values, i + 1, i)
    ELSE ScanMax_LastWins(values, i + 1, best)

\* The scan for the maximum from row i on: best is the row of the greatest
\* number so far, 0 while maxValue is still Number.NEGATIVE_INFINITY
RECURSIVE ScanMax(_, _, _)
ScanMax(values, i, best) ==
    IF i > Len(values) THEN best
    ELSE IF /\ isNumeric(values[i])
            /\ (best = 0 \/ Greater(toNumber(values[i]), toNumber(values[best])))
    THEN ScanMax(values, i + 1, i)
    ELSE ScanMax(values, i + 1, best)

\* The scan for the minimum, likewise
RECURSIVE ScanMin(_, _, _)
ScanMin(values, i, best) ==
    IF i > Len(values) THEN best
    ELSE IF /\ isNumeric(values[i])
            /\ (best = 0 \/ Less(toNumber(values[i]), toNumber(values[best])))
    THEN ScanMin(values, i + 1, i)
    ELSE ScanMin(values, i + 1, best)

\* The sum of the numeric cells and their count
RECURSIVE SumNumeric(_)
SumNumeric(values) ==
    IF values = <<>> THEN [sum |-> 0, count |-> 0]
    ELSE LET rest == SumNumeric(Tail(values))
         IN  IF isNumeric(Head(values))
             THEN [sum |-> rest.sum + toNumber(Head(values))[1],
                   count |-> rest.count + 1]
             ELSE rest

\* findColumnIndex: the first column whose name has partialName in it, else 0
findColumnIndex(table, partialName) ==
    LET found == {i \in DOMAIN table :
                     Contains(LowerCase(table[i].name), partialName)}
    IN  IF found = {} THEN 0 ELSE CHOOSE i \in found : \A j \in found : i <= j

\* The cell of the column counted from its end (0: the last) as a number,
\* or the number given when the column is that short
FromEnd(values, back, otherwise) ==
    IF Len(values) > back THEN toNumber(values[Len(values) - back])
    ELSE <<otherwise>>

\* The kind of query the function takes the query for, in the order of its
\* if-else chain
Intent(lowerQuery) ==
    LET has(word) == Contains(lowerQuery, word)
        asks == \/ has(<<"b", "u", "y">>)
                \/ has(<<"s", "e", "l", "l">>)
                \/ has(<<"h", "o", "l", "d">>)
    IN  IF \/ has(<<"h", "i", "g", "h", "e", "s", "t">>)
           \/ has(<<"m", "a", "x", "i", "m", "u", "m">>)
           \/ has(<<"m", "a", "x">>)
        THEN "max"
        ELSE IF \/ has(<<"l", "o", "w", "e", "s", "t">>)
                \/ has(<<"m", "i", "n", "i", "m", "u", "m">>)
                \/ has(<<"m", "i", "n">>)
        THEN "min"
        ELSE IF \/ has(<<"a", "v", "e", "r", "a", "g", "e">>)
                \/ has(<<"m", "e", "a", "n">>)
                \/ has(<<"a", "v", "g">>)
        THEN "average"
        ELSE IF has(<<"r", "s", "i">>) /\ asks THEN "rsi"
        ELSE IF has(<<"m", "a", "c", "d">>) /\ asks THEN "macd"
        ELSE "none"

\* The default response
DefaultAnswer(intent) ==
    [answer |-> HoldText, reasoning |-> TableReasoning(intent, 0, 0)]

\* fallbackTableAnalysis(query, table); the table is the sequence of its
\* columns in the order of Object.keys
fallbackTableAnalysisOf(query, table) ==
    LET lowerQuery == LowerCase(query)
        intent == Intent(lowerQuery)
        target == TargetColumn(lowerQuery, table)
        values == table[target].values
        row == IF intent = "max" THEN ScanMax(values, 1, 0)
               ELSE ScanMin(values, 1, 0)
        total == SumNumeric(values)
        rsiColumn == findColumnIndex(table, <<"r", "s", "i">>)
        macdColumn == findColumnIndex(table, <<"m", "a", "c", "d">>)
        signalColumn == findColumnIndex(table, <<"s", "i", "g", "n", "a", "l">>)
        latestRSI == FromEnd(table[rsiColumn].values, 0, 50)
        latestMACD == FromEnd(table[macdColumn].values, 0, 0)
        latestSignal == FromEnd(table[signalColumn].values, 0, 0)
        prevMACD == FromEnd(table[macdColumn].values, 1, 0)
        prevSignal == FromEnd(table[signalColumn].values, 1, 0)
    IN  CASE intent \in {"max", "min"} /\ target # 0 ->
                IF row # 0
                THEN [answer |-> values[row],
                      reasoning |-> TableReasoning(intent, target, row)]
                ELSE DefaultAnswer(intent)
          [] intent = "average" /\ target # 0 ->
                IF total.count > 0
                THEN [answer |-> toFixed2(total.sum, total.count),
                      reasoning |-> TableReasoning(intent, target, 0)]
                ELSE DefaultAnswer(intent)
          [] intent = "rsi" /\ rsiColumn # 0 ->
                [answer |-> IF Greater(latestRSI, <<70>>) THEN SellText
                            ELSE IF Less(latestRSI, <<30>>) THEN BuyText
                            ELSE HoldText,
                 reasoning |-> TableReasoning(intent, rsiColumn, 0)]
          [] intent = "macd" /\ macdColumn # 0 /\ signalColumn # 0 ->
                [answer |->
                    IF Less(prevMACD, prevSignal) /\ Greater(latestMACD, latestSignal)
                    THEN BuyText
                    ELSE IF /\ Greater(prevMACD, prevSignal)
                            /\ Less(latestMACD, latestSignal)
                    THEN SellText
                    ELSE HoldText,
                 reasoning |-> TableReasoning(intent, macdColumn, 0)]
          [] OTHER -> DefaultAnswer(intent)

\* Cells of a table: numbers, a number with a unit, two digits around a
\* letter (12 once the letter is stripped), and three that are not numeric:
\* no leading digit, nothing at all after stripping that Number accepts
Cells ==
    {<<"7">>,
     <<"1", "2">>,
     <<"-", "3">>,
     <<"7", "%">>,
     <<"1", "x", "2">>,
     <<"x", "7">>,
     <<"1", "-", "2">>}

MaxRows == 3

Columns == UNION {[1..n -> Cells] : n \in 0..MaxRows}

\* Tables of one column, tables whose first column holds no number, tables
\* with a numeric column before the one a query may name, and tables of the
\* MACD line and its signal line
Tables ==
    {<<[name |-> <<"R", "S", "I">>, values |-> values]>> : values \in Columns}
    \cup {<<[name |-> <<"n", "o", "t", "e">>, values |-> <<<<"x", "7">>>>],
            [name |-> <<"R", "S", "I">>, values |-> values]>> : values \in Columns}
    \cup {<<[name |-> <<"p", "r", "i", "c", "e">>,
              values |-> <<<<"1", "2">>, <<"7">>>>],
            [name |-> <<"R", "S", "I">>, values |-> values]>> : values \in Columns}
    \cup {<<[name |-> <<"M", "A", "C", "D">>, values |-> macd],
            [name |-> <<"S", "i", "g", "n", "a", "l">>, values |-> signal]>> :
             macd, signal \in {<<>>, <<<<"7">>>>, <<<<"7">>, <<"1", "2">>>>,
                               <<<<"1", "2">>, <<"7">>>>, <<<<"1", "2">>, <<"x", "7">>>>}}

TableQueries ==
    {<<"m", "a", "x">>,
     <<"H", "i", "g", "h", "e", "s", "t", " ", "r", "s", "i">>,
     <<"m", "i", "n", " ", "m", "a", "x">>,
     <<"m", "a", "x", "i", "m", "u", "m", " ", "o", "f", " ", "n", "o", "t", "e">>,
     <<"m", "i", "n">>,
     <<"l", "o", "w", "e", "s", "t", " ", "R", "S", "I">>,
     <<"a", "v", "g">>,
     <<"r", "s", "i", " ", "b", "u", "y">>,
     <<"m", "a", "c", "d", " ", "s", "e", "l", "l">>,
     <<"h", "o", "l", "d">>,
     <<"r", "s", "i">>,
     <<>>}

NoTableResult == [answer |-> <<>>, reasoning |-> TableReasoning("none", 0, 0)]

InitTable ==
    /\ TradingAtRest
    /\ apiToken = "set"
    /\ serverStore = EmptyStore
    /\ clients = {}
    /\ analysis = [r \in Requests |-> NoAnalysis]
    /\ calc \in [fn : {"pending"}, query : TableQueries, table : Tables,
                 value : {NoTableResult}]

AnalyzeTable ==
    /\ calc.fn = "pending"
    /\ calc' = [calc EXCEPT
                  !.fn = "fallbackTableAnalysis",
                  !.value = fallbackTableAnalysisOf(calc.query, calc.table)]
    /\ UNCHANGED <<manager, tradeVars, apiToken, serverStore, clients, analysis>>

NextTable == AnalyzeTable

SpecTable == InitTable /\ [][NextTable]_vars

TableAnalyzed == calc.fn = "fallbackTableAnalysis"

\* The rows of the column whose cell is numeric
NumericRows(values) == {i \in DOMAIN values : isNumeric(values[i])}

\* The first of the rows whose number no numeric row of the column exceeds
FirstOfGreatest(values) ==
    LET greatest == {i \in NumericRows(values) :
                        \A j \in NumericRows(values) :
                            toNumber(values[j])[1] <= toNumber(values[i])[1]}
    IN  CHOOSE i \in greatest : \A j \in greatest : i <= j

\* The first of the rows whose number no numeric row of the column is below
FirstOfLeast(values) ==
    LET least == {i \in NumericRows(values) :
                     \A j \in NumericRows(values) :
                         toNumber(values[j])[1] >= toNumber(values[i])[1]}
    IN  CHOOSE i \in least : \A j \in least : i <= j

\* C33: for a max (min) query the table fallback answers with the cell of
\* the first row among the rows whose number is the greatest (least) of the
\* numeric cells of the column it reads, cells that are not numeric being
\* passed over; a query of none of the kinds it knows gets the answer HOLD
C33_FirstExtremeOrHold ==
    TableAnalyzed =>
        LET lowerQuery == LowerCase(calc.query)
            intent == Intent(lowerQuery)
            column == TargetColumn(lowerQuery, calc.table)
            values == calc.table[column].values
        IN  /\ (intent = "max" /\ column # 0 /\ NumericRows(values) # {}) =>
                  /\ calc.value.answer = values[FirstOfGreatest(values)]
                  /\ calc.value.reasoning.row = FirstOfGreatest(values)
            /\ (intent = "min" /\ column # 0 /\ NumericRows(values) # {}) =>
                  /\ calc.value.answer = values[FirstOfLeast(values)]
                  /\ calc.value.reasoning.row = FirstOfLeast(values)
            /\ intent = "none" => calc.value.answer = HoldText
            /\ (/\ calc.query = <<"m", "a", "x">>
                /\ calc.table =
                      <<[name |-> <<"R", "S", "I">>,
                         values |-> <<<<"x", "7">>, <<"1", "x", "2">>, <<"1", "2">>>>]>>) =>
                  calc.value.answer = <<"1", "x", "2">>
            /\ (/\ calc.query = <<"l", "o", "w", "e", "s", "t", " ", "R", "S", "I">>
                /\ calc.table = <<[name |-> <<"R", "S", "I">>,
                                   values |-> <<<<"1", "2">>, <<"7", "%">>, <<"7">>>>]>>) =>
                  calc.value.answer = <<"7", "%">>
            /\ calc.query = <<"h", "o", "l", "d">> => calc.value.answer = HoldText

\* C33 witness: a max query over a column whose first cell is not numeric and
\* whose second and third cells both stand for 12: the second is the answer
C33_Witness ==
    /\ TableAnalyzed
    /\ Intent(LowerCase(calc.query)) = "max"
    /\ calc.table = <<[name |-> <<"R", "S", "I">>,
                       values |-> <<<<"x", "7">>, <<"1", "x", "2">>, <<"1", "2">>>>]>>
    /\ calc.value.answer = <<"1", "x", "2">>
    /\ calc.value.reasoning.row = 2

=============================================================================
